---- MODULE Spec2Model ----
(***************************************************************************)
(* Model of mlrun's V2ModelServer (src/mlrun/serving/v2_serving.py): the   *)
(* readiness flag and load error of one server instance, the post_init     *)
(* calls that load the model in sync or async mode, the loader threads,    *)
(* and do_event: the classification of an event, the dispatch to the       *)
(* predict, explain, health, metadata and custom branches, the hooks each  *)
(* branch runs and the pushes it makes.  do_event reads self.ready,        *)
(* self.error, self.version and self.model_spec and writes no field of the *)
(* server, so the model follows the events of one worker, which handles    *)
(* them one at a time.  In do_event the pusher samples and batches by 1,   *)
(* the server has no input_path and no result_path, and the load() of the  *)
(* loader actions does not call get_model(): get_model is called by        *)
(* _init_endpoint_record, by versioned_model_name and by an action of its  *)
(* own.  _ModelLogPusher.push, with its sampling counter and the lists its *)
(* batch buffer is bound to, _init_endpoint_record, with the record the    *)
(* registry holds, _inputs_to_list, with the keys of the mappings it is    *)
(* handed, and the wait loop of _check_readiness under the scheduling of   *)
(* the worker are modelled by actions and specifications of their own.     *)
(***************************************************************************)
EXTENDS Integers, Sequences, FiniteSets, TLC

\* ------------------------------------------------------------------ bounds

\* number of post_init calls made on the instance
MaxPostInit == 2
\* number of events the worker hands to do_event, one after the other
MaxEvents == 1
\* largest log_stream_sample and log_stream_batch a pusher is built with
MaxSample == 3
MaxBatch == 3
\* number of push calls made one after the other on a pusher
MaxPushes == 6
\* number of threads that call push on one pusher at the same time
MaxThreads == 2
\* number of _init_endpoint_record runs against one registry
MaxReconcile == 2
\* the longest list a request carries as inputs
MaxItems == 2

\* ------------------------------------------------------- program constants

\* `for i in range(50)` in _check_readiness
WaitPolls == 50

\* self.error = "" in __init__
NoError == ""
\* the exceptions a user-supplied load() may raise
LoadExceptions == {"ValueError", "IOError"}

\* event.trigger is None, or event.trigger.kind is one of these strings
NoTrigger == "None"
TriggerKinds == {"http", "", "stream"}
Triggers == {NoTrigger} \cup TriggerKinds

\* the operations of do_event's first and fourth branch
PredictOps == {"predict", "infer", "infer_dict", "predict_dict"}
ReadinessOps == PredictOps \cup {"explain"}
\* one operation of each of the two branches, for the specifications in which
\* the model is loading while events arrive
ServeOps == {"infer", "explain"}

\* self.version: "" unless the name given to __init__ is "name:version"
NoVersion == ""
Versions == {NoVersion, "v1"}

\* event.method
Methods == {"GET", "POST"}

\* a key that a mapping body does not have
Absent == "<absent>"
\* op when event_body.get("operation") returns None
NoneOp == "<None>"

\* the op_<name> methods of the server class: one custom operation, no op_ready
CustomOps == {"custom"}

\* event.path as a sequence of "/" separators and name segments
Paths == {<<>>, <<"/">>, <<"/", "infer">>, <<"/", "infer", "/">>,
          <<"/", "predict_dict">>, <<"/", "explain">>, <<"/", "ready">>,
          <<"/", "custom">>, <<"/", "bogus">>}

\* event.body: None, or a mapping described by its "operation" and "id"
\* entries and by the kind of its "inputs" entry: a list of plain values, a
\* mapping with the keys a and b ("dict") or a mapping with the key a alone
\* ("partial"). The mapping with none of the three is the empty mapping; a
\* mapping whose only entry is "id" stands for every non-empty mapping that
\* carries neither operation nor inputs.
NoBody == [type |-> "None", operation |-> Absent, id |-> Absent, inputs |-> Absent]
DictBodies == [type : {"dict"}, operation : {Absent, "explain"},
               id : {Absent, "b1"}, inputs : {Absent, "list", "dict", "partial"}]
Bodies == {NoBody} \cup DictBodies

\* the events handed to do_event
Events == [id : {"e1"}, path : Paths, method : Methods, body : Bodies]

\* what the user's predict/explain, the output stream's push and the
\* preprocess hook (the default one returns the request) do when they are
\* called for an event; a raising preprocess is listed once, since the
\* request that it ends reaches neither the model nor the sink
Hooks == [model : {"ok", "raise"}, sink : {"ok", "raise"}, preprocess : {"ok"}]
         \cup [model : {"ok"}, sink : {"ok"}, preprocess : {"raise"}]
NoFaults == [model |-> "ok", sink |-> "ok", preprocess |-> "ok"]

Callers == 1..MaxPostInit
Modes == {"sync", "async"}

\* what _init_endpoint_record hands back to post_init: a uid, None, or an
\* exception of the run db that it does not catch
RegistryOutcomes == {"uid", "None", "raise"}

VARIABLES
    ready,              \* self.ready
    error,              \* self.error: "" or the exception load() raised
    model,              \* TRUE iff a model object was given to __init__
    context,            \* the hosting context's flags, fixed at construction
    model_endpoint_uid, \* self.model_endpoint_uid ("None" until reconciled)
    model_logger,       \* TRUE iff self._model_logger is a _ModelLogPusher
    pipc,               \* per post_init call: where the caller is
    pimode,             \* per post_init call: its mode argument
    piraise,            \* per post_init call: the exception that left it
    pilog,              \* per post_init call: the steps run after the load branch
    load,               \* per post_init call: the load() it started, and its outcome
    events,             \* number of events the worker has handed to do_event
    rpc,                \* the worker's current event: where do_event is
    trigger,            \* the current event's trigger
    op,                 \* the current event's operation
    polls,              \* the wait loop's iterations so far (one sleep each);
                        \* 0 again once the event is served
    calls,              \* the hooks invoked for the current event, in order
    result,             \* what do_event returned or raised for it
    version,            \* self.version
    model_spec,         \* TRUE iff self.model_spec is set (get_model() ran)
    event,              \* the current event as it arrived
    hooks,              \* what predict/explain and the sink do for it
    terminated,         \* TRUE iff event.terminated was set
    ebody,              \* event.body once do_event is left
    pushes,             \* the calls of self._model_logger.push for it
    stream_sample,      \* _ModelLogPusher.stream_sample
    stream_batch,       \* _ModelLogPusher.stream_batch
    sample_iter,        \* _ModelLogPusher._sample_iter
    batch_iter,         \* _ModelLogPusher._batch_iter
    lists,              \* the list objects made for _ModelLogPusher._batch, in the
                        \* order they were made: the rows of each, a row being the
                        \* number of its call
    batch_id,           \* which list object self._batch is bound to
    elapsed,            \* now_date() - start at the last emission, in microseconds
    microsec,           \* the microsec value the last emission stored
    sink,               \* the calls of output_stream.push, in order
    plog,               \* the calls of push so far: "error" or "ok", in order
    tpc,                \* per thread in push: the statement it is at
    tn,                 \* per thread in push: the number of its call
    ttmp,               \* per thread in push: the counter value it has loaded, or
                        \* the list it has read from self._batch
    registry,           \* the registry's record of this endpoint, or NoRecord
    track_models,       \* context.server.track_models
    rcpc,               \* per _init_endpoint_record run: where it is
    rcep,               \* per run: its local model_ep
    rcret,              \* per run: what it returned or that it raised
    rcans,              \* per run: how its calls of the run db ended, in order
    rclog,              \* the create and patch calls the registry received
    spec_inputs,        \* self.model_spec: whether it is set, and the feature
                        \* names of its inputs
    seen_spec,          \* do_event: the self.model_spec that the event at hand was
                        \* converted with (_inputs_to_list)
    seen_version,       \* do_event: the self.version that the response of the event
                        \* at hand was built with
    model_path,         \* self.model_path: "None" or a store:// uri
    versioned_name,     \* self._versioned_model_name: "None" or its version part
    req_inputs,         \* the request handed to _inputs_to_list, by its "inputs"
    new_inputs          \* what _inputs_to_list left in request["inputs"], or raised

vars == <<ready, error, model, context, model_endpoint_uid, model_logger,
          pipc, pimode, piraise, pilog, load, events, rpc, trigger, op, polls,
          calls, result, version, model_spec, event, hooks, terminated, ebody,
          pushes, stream_sample, stream_batch, sample_iter, batch_iter, lists,
          batch_id, elapsed, microsec, sink, plog, tpc, tn, ttmp, registry,
          track_models, rcpc, rcep, rcret, rcans, rclog, spec_inputs,
          model_path, versioned_name, req_inputs, new_inputs, seen_spec,
          seen_version>>

serverVars == <<ready, error, model, context, model_endpoint_uid, model_logger>>
postInitVars == <<pipc, pimode, piraise, pilog, load>>
requestVars == <<events, rpc, trigger, op, polls, calls, result>>
attrVars == <<version, model_spec, spec_inputs, model_path, versioned_name>>
eventVars == <<event, hooks, terminated, ebody, pushes, seen_spec, seen_version>>
pushVars == <<stream_sample, stream_batch, sample_iter, batch_iter, lists,
              batch_id, elapsed, microsec, sink, plog, tpc, tn, ttmp>>
regVars == <<registry, track_models, rcpc, rcep, rcret, rcans, rclog>>
inputVars == <<req_inputs, new_inputs>>
componentVars == <<pushVars, regVars, inputVars>>

NoRaise == [type |-> "None", cause |-> NoError]
NoResult == [kind |-> "None", msg |-> "", reason |-> NoError]

\* event.body as long as do_event has not assigned it
OriginalBody == [kind |-> "original"]
NoEvent == [id |-> "e1", path |-> <<>>, method |-> "POST", body |-> NoBody]

Contexts == [server : BOOLEAN, is_mock : BOOLEAN, monitoring_mock : BOOLEAN,
             stream_enabled : BOOLEAN]

\* the values log_stream_sample and log_stream_batch are given
Samples == 1..MaxSample
Batches == 1..MaxBatch
\* the time from start to the moment push builds its record, in
\* microseconds: below, at and above one second
Durations == {0, 1, 999999, 1000000, 1000001, 2500000}
\* the threads of the hosting runtime that may be in push at the same time
Threads == 1..MaxThreads

\* _ModelLogPusher.__init__ with log_stream_sample n and log_stream_batch b,
\* before any push
\* _ModelLogPusher._batch: the rows of the list the attribute is bound to
batch == lists[batch_id + 1]

NewPusher(n, b) ==
    /\ stream_sample = n
    /\ stream_batch = b
    /\ sample_iter = 0
    /\ batch_iter = 0
    /\ lists = << <<>> >>
    /\ batch_id = 0
    /\ elapsed = 0
    /\ microsec = 0
    /\ sink = <<>>
    /\ plog = <<>>
    /\ tpc = [t \in Threads |-> "idle"]
    /\ tn = [t \in Threads |-> 0]
    /\ ttmp = [t \in Threads |-> 0]

\* the fields of an endpoint record that _init_endpoint_record compares
Fields == {"function_uid", "model_name", "model_uid", "model_tag",
           "model_db_key", "labels", "model_class", "monitoring_mode"}
\* the fields it takes from self.model_spec
SpecFields == {"model_name", "model_uid", "model_tag", "model_db_key"}

\* the values _init_endpoint_record computes for the fields: the uid of the
\* function the run db returns, the entries of model.model_spec (None, and
\* no labels, without one), the class name and the mode track_models gives
Identity(spec_known, track) ==
    [f \in Fields |->
       CASE f = "function_uid" -> "f1"
         [] f \in SpecFields -> IF spec_known THEN "m1" ELSE "None"
         [] f = "labels" -> IF spec_known THEN "l1" ELSE "{}"
         [] f = "model_class" -> "V2ModelServer"
         [] OTHER -> IF track THEN "enabled" ELSE "disabled"]

\* a second value for each field
Stale(f) ==
    CASE f = "function_uid" -> "f0"
      [] f \in SpecFields -> "None"
      [] f = "labels" -> "{}"
      [] f = "model_class" -> "OtherServer"
      [] OTHER -> "disabled"

\* the registry has no record of the endpoint; a run's model_ep is None
NoRecord == [exists |-> FALSE, fields |-> [f \in Fields |-> "None"]]
\* the records the registry may hold of it: each field holds one of its two
\* values
Records ==
    {[exists |-> TRUE,
      fields |-> [f \in Fields |-> IF f \in d THEN Stale(f)
                                   ELSE Identity(TRUE, TRUE)[f]]] :
       d \in SUBSET Fields}

Runs == 1..MaxReconcile
NoReturn == "-"

\* a registry holding rec, a server configured with track_models = track and
\* no _init_endpoint_record run made yet
NewRegistrar(rec, track) ==
    /\ registry = rec
    /\ track_models = track
    /\ rcpc = [r \in Runs |-> "idle"]
    /\ rcep = [r \in Runs |-> NoRecord]
    /\ rcret = [r \in Runs |-> NoReturn]
    /\ rcans = [r \in Runs |-> <<>>]
    /\ rclog = <<>>

\* the keys of the mappings a request may carry; "a" and "b" are the
\* features a model may declare, "z" is one that no model declares
Keys == {"a", "b", "z"}
\* self.model_spec.inputs as the list of its feature names
Orders == {<<>>, <<"a">>, <<"a", "b">>, <<"b", "a">>}
\* self.model_spec: None (known is FALSE), or a spec with these inputs
NoSpec == [known |-> FALSE, names |-> <<>>]
DeclaredInputs == {NoSpec} \cup [known : {TRUE}, names : Orders]
\* the model_spec of the artifact that mlrun.artifacts.get_model returns for
\* self.model_path
ArtifactSpec == [known |-> TRUE, names |-> <<"a", "b">>]
\* the tag of that artifact
ArtifactTag == "m1"
\* the model_path argument of __init__: none, or the store:// uri of a model
\* artifact (a path of another kind is resolved by mlrun.artifacts.get_model
\* alone and is left out)
ModelPaths == {"None", "store"}
\* the model_spec values an event may find: none, one that declares no
\* inputs, and the artifact's
EventSpecs == {NoSpec, [known |-> TRUE, names |-> <<>>], ArtifactSpec}

\* an item of a list: a mapping, known by its keys, or a plain value
Plain == [type |-> "plain", keys |-> {}]
Mappings == [type : {"dict"}, keys : SUBSET Keys]
Items == Mappings \cup {Plain}
ItemLists == UNION {[1..n -> Items] : n \in 0..MaxItems}

\* the request handed to _inputs_to_list: None, or a mapping whose "inputs"
\* entry is absent, a plain value, one mapping (the one item) or a list
NoInputs == [type |-> "absent", items |-> <<>>]
Requests ==
    [type : {"None", "absent", "plain"}, items : {<<>>}]
    \cup [type : {"dict"}, items : {<<m>> : m \in Mappings}]
    \cup [type : {"list"}, items : ItemLists]

\* _inputs_to_list has not been called
NotConverted == [kind |-> "-", names |-> <<>>, shape |-> "-", rows |-> <<>>]

NoConversion ==
    /\ req_inputs = NoInputs
    /\ new_inputs = NotConverted

\* V2ModelServer.__init__: ready only when a model object is supplied
Init ==
    /\ model \in BOOLEAN
    /\ ready = model
    /\ error = NoError
    /\ context \in Contexts
    /\ model_endpoint_uid = "None"
    /\ model_logger = FALSE
    /\ pipc = [c \in Callers |-> "idle"]
    /\ pimode = [c \in Callers |-> "sync"]
    /\ piraise = [c \in Callers |-> NoRaise]
    /\ pilog = [c \in Callers |-> <<>>]
    /\ load = [c \in Callers |-> "none"]
    /\ events = 0
    /\ rpc = "idle"
    /\ trigger = NoTrigger
    /\ op = "infer"
    /\ polls = 0
    /\ calls = <<>>
    /\ result = NoResult
    /\ version \in Versions
    /\ model_spec = FALSE
    /\ spec_inputs = NoSpec
    /\ model_path \in ModelPaths
    /\ versioned_name = "None"
    /\ event = NoEvent
    /\ hooks = NoFaults
    /\ terminated = FALSE
    /\ ebody = OriginalBody
    /\ pushes = <<>>
    /\ seen_spec = NoSpec
    /\ seen_version = ""
    /\ NewPusher(1, 1)
    /\ NewRegistrar(NoRecord, FALSE)
    /\ NoConversion

\* ------------------------------------------------------------- post_init

MutNeedsLoad(rdy) == TRUE

\* post_init: `if not self.ready:` guards the whole load branch
NeedsLoad(rdy) == ~rdy

MutAfterLoadStart(mode) == "loading"

\* post_init: where the caller is once the load is started. In async mode
\* t.start() returns at once and the caller goes on; in sync mode the caller
\* itself runs _load_and_update_state and stays in it until load() resolves
AfterLoadStart(mode) == IF mode = "async" THEN "tail" ELSE "loading"

\* post_init, up to and including the load branch. Calls are numbered in the
\* order they are made.
post_init(c, mode) ==
    /\ pipc[c] = "idle"
    /\ \A d \in Callers : d < c => pipc[d] # "idle"
    /\ pimode' = [pimode EXCEPT ![c] = mode]
    /\ IF NeedsLoad(ready)
       THEN /\ load' = [load EXCEPT ![c] = "running"]
            /\ pipc' = [pipc EXCEPT ![c] = AfterLoadStart(mode)]
       ELSE /\ pipc' = [pipc EXCEPT ![c] = "tail"]
            /\ UNCHANGED load
    /\ UNCHANGED <<piraise, pilog>>
    /\ UNCHANGED serverVars
    /\ UNCHANGED requestVars
    /\ UNCHANGED attrVars
    /\ UNCHANGED componentVars
    /\ UNCHANGED eventVars

MutRecordedError(old, exc) == old

\* _load_and_update_state: what a raising load() leaves in self.error
RecordedError(old, exc) == exc

MutReadyAfterFailure(rdy) == TRUE

MutReadyLost(rdy) == FALSE

\* _load_and_update_state: self.ready after load() raised
ReadyAfterFailure(rdy) == rdy

\* _load_and_update_state: the exception raised after load() raised exc
\* (`raise RuntimeError(...) from exc`)
WrappedLoadError(exc) == [type |-> "RuntimeError", cause |-> exc]

\* _load_and_update_state, from the moment load() returns or raises. It runs
\* on the post_init caller (pipc = "loading") or on the thread post_init
\* started; an exception that leaves the thread's target reaches nobody.
load_and_update_state(c, outcome) ==
    /\ load[c] = "running"
    /\ load' = [load EXCEPT ![c] = outcome]
    /\ IF outcome = "ok"
       THEN /\ ready' = TRUE
            /\ error' = error
            /\ pipc' = [pipc EXCEPT ![c] = IF @ = "loading" THEN "tail" ELSE @]
            /\ UNCHANGED piraise
       ELSE /\ error' = RecordedError(error, outcome)
            /\ ready' = ReadyAfterFailure(ready)
            /\ IF pipc[c] = "loading"
               THEN /\ pipc' = [pipc EXCEPT ![c] = "raised"]
                    /\ piraise' = [piraise EXCEPT ![c] = WrappedLoadError(outcome)]
               ELSE UNCHANGED <<pipc, piraise>>
    /\ UNCHANGED <<model, context, model_endpoint_uid, model_logger>>
    /\ UNCHANGED <<pimode, pilog>>
    /\ UNCHANGED requestVars
    /\ UNCHANGED attrVars
    /\ UNCHANGED componentVars
    /\ UNCHANGED eventVars

\* get_model, lines 200-203: self.model_spec when it returns. With a
\* model_path it is the spec mlrun.artifacts.get_model returns, without one
\* it is left as it is
GetModel(path, si) == IF path # "None" THEN ArtifactSpec ELSE si

\* _init_endpoint_record, lines 572-573: `if not model.model_spec:
\* model.get_model()`
EndpointSpec(path, si) == IF ~si.known THEN GetModel(path, si) ELSE si

MutTracksEndpoint(ctx) == ~ctx.is_mock

\* post_init: `if not self.context.is_mock or self.context.monitoring_mock`
TracksEndpoint(ctx) == ~ctx.is_mock \/ ctx.monitoring_mock

\* post_init: the calls a post_init that returns has made after the load
\* branch under a context with a server, in the order the code makes them:
\* _init_endpoint_record when the endpoint is tracked, then the
\* _ModelLogPusher constructor when the stream is enabled
TailSteps(ctx) ==
    (IF TracksEndpoint(ctx) THEN <<"init_endpoint_record">> ELSE <<>>)
    \o (IF ctx.stream_enabled THEN <<"ModelLogPusher">> ELSE <<>>)

Has(seq, x) == \E i \in DOMAIN seq : seq[i] = x

\* what no statement of post_init after the load branch writes
TailFrame ==
    /\ UNCHANGED <<version, model_path, versioned_name>>
    /\ UNCHANGED <<ready, error, model, context>>
    /\ UNCHANGED <<pimode, load>>
    /\ UNCHANGED requestVars
    /\ UNCHANGED componentVars
    /\ UNCHANGED eventVars

\* post_init after the load branch, lines 143-150 and 572-573: the server
\* lookup and, when the endpoint is tracked, the call of
\* _init_endpoint_record up to its get_model(); the caller then waits for
\* the run db. When the endpoint is not tracked the caller goes on to lines
\* 154-158 and returns.
post_init_tail(c) ==
    /\ pipc[c] = "tail"
    /\ IF ~context.server
       THEN /\ pipc' = [pipc EXCEPT ![c] = "returned"]
            /\ UNCHANGED <<model_logger, pilog, model_spec, spec_inputs>>
       ELSE IF TracksEndpoint(context)
       THEN /\ pipc' = [pipc EXCEPT ![c] = "endpoint"]
            /\ pilog' = [pilog EXCEPT ![c] = <<"init_endpoint_record">>]
            /\ \E si \in {EndpointSpec(model_path, spec_inputs)} :
                 /\ spec_inputs' = si
                 /\ model_spec' = si.known
            /\ UNCHANGED model_logger
       ELSE /\ pipc' = [pipc EXCEPT ![c] = "returned"]
            /\ pilog' = [pilog EXCEPT ![c] = TailSteps(context)]
            /\ model_logger' = Has(pilog'[c], "ModelLogPusher")
            /\ UNCHANGED <<model_spec, spec_inputs>>
    /\ UNCHANGED <<model_endpoint_uid, piraise>>
    /\ TailFrame

\* post_init, lines 151-153: _init_endpoint_record returns or raises once the
\* run db has answered its calls (587, 601, 645 or 681); outcome is what it
\* returns, or "raise". The value returned is written to model_endpoint_uid;
\* an exception leaves post_init.
post_init_endpoint(c, outcome) ==
    /\ pipc[c] = "endpoint"
    /\ IF outcome = "raise"
       THEN /\ pipc' = [pipc EXCEPT ![c] = "raised"]
            /\ piraise' = [piraise EXCEPT ![c] =
                             [type |-> "RegistryError", cause |-> NoError]]
            /\ UNCHANGED model_endpoint_uid
       ELSE /\ pipc' = [pipc EXCEPT ![c] = "logger"]
            /\ model_endpoint_uid' = outcome
            /\ UNCHANGED piraise
    /\ UNCHANGED <<model_logger, pilog, model_spec, spec_inputs>>
    /\ TailFrame

\* post_init, lines 154-158, after _init_endpoint_record returned: the
\* _ModelLogPusher is built when the stream is enabled, and post_init returns
post_init_logger(c) ==
    /\ pipc[c] = "logger"
    /\ pipc' = [pipc EXCEPT ![c] = "returned"]
    /\ pilog' = [pilog EXCEPT ![c] = TailSteps(context)]
    /\ model_logger' = Has(pilog'[c], "ModelLogPusher")
    /\ UNCHANGED <<model_endpoint_uid, piraise, model_spec, spec_inputs>>
    /\ TailFrame

\* ------------------------------------- get_model, versioned_model_name

\* get_model() called by the user's code (load() usually) on a server with a
\* model_path; without one it returns None, None and writes nothing
get_model ==
    /\ model_path # "None"
    /\ \E si \in {GetModel(model_path, spec_inputs)} :
         /\ spec_inputs' = si
         /\ model_spec' = si.known
    /\ UNCHANGED <<version, model_path, versioned_name>>
    /\ UNCHANGED serverVars
    /\ UNCHANGED postInitVars
    /\ UNCHANGED requestVars
    /\ UNCHANGED eventVars
    /\ UNCHANGED componentVars

\* the version the property puts into the name: self.version, for a store
\* path the artifact's tag when self.version is empty
VersionAfter(path, ver) == IF path = "store" /\ ver = "" THEN ArtifactTag ELSE ver

\* the first read of the property versioned_model_name: for a store path it
\* calls get_model() and takes the version from the artifact's tag when
\* self.version is empty; the name is kept, and later reads return it
versioned_model_name ==
    /\ versioned_name = "None"
    /\ \E si \in {IF model_path = "store" THEN GetModel(model_path, spec_inputs)
                   ELSE spec_inputs} :
         /\ spec_inputs' = si
         /\ model_spec' = si.known
    /\ version' = VersionAfter(model_path, version)
    /\ versioned_name' = IF version' = "" THEN "latest" ELSE version'
    /\ UNCHANGED model_path
    /\ UNCHANGED serverVars
    /\ UNCHANGED postInitVars
    /\ UNCHANGED requestVars
    /\ UNCHANGED eventVars
    /\ UNCHANGED componentVars

\* -------------------------------------------------------------- do_event

MutIsInteractive(trig) == trig = "http"

\* _check_readiness: `not event.trigger or event.trigger.kind in ["http", ""]`
IsInteractive(trig) == trig = NoTrigger \/ trig \in {"http", ""}

MutLoopExhausted(n) == n > WaitPolls

\* _check_readiness: `for i in range(50)` ends after this many iterations
LoopExhausted(n) == n >= WaitPolls

\* _check_readiness: the error raised after the loop carries self.error
TimeoutReason(err) == err

MutLoopReturns(rdy) == FALSE

\* _check_readiness: `if self.ready: return` after each sleep of the loop
LoopReturns(rdy) == rdy

MutPipeline(o) ==
    (IF o \in {"infer_dict", "predict_dict"} THEN <<"_inputs_to_list">> ELSE <<>>)
    \o <<"preprocess", "validate">>
    \o (IF o = "explain" THEN <<"explain">> ELSE <<"predict", "postprocess">>)

\* the hooks do_event runs for a ready model when none of them raises:
\* _pre_event_processing_actions, then predict or explain, then postprocess
Pipeline(o) ==
    (IF o \in {"infer_dict", "predict_dict"} THEN <<"_inputs_to_list">> ELSE <<>>)
    \o <<"preprocess", "validate">>
    \o (IF o = "explain" THEN <<"explain">> ELSE <<"predict">>)
    \o <<"postprocess">>

Response == [kind |-> "response", msg |-> "", reason |-> NoError]
NotReadyYet == [kind |-> "RuntimeError", msg |-> "is not ready yet", reason |-> NoError]
NotReady(err) == [kind |-> "RuntimeError", msg |-> "is not ready", reason |-> err]

\* an exception that leaves do_event and is not a readiness rejection
Raised(kind) == [kind |-> kind, msg |-> "", reason |-> NoError]

\* do_event: `raise ValueError(f"illegal model operation {op}, method={event.method}")`
IllegalOperation(o, m) ==
    [method |-> m, op |-> o, kind |-> "ValueError",
     msg |-> "illegal model operation", reason |-> NoError]

\* str.strip("/") on event.path: the leading and the trailing separators go
RECURSIVE LStrip(_)
LStrip(p) == IF p # <<>> /\ Head(p) = "/" THEN LStrip(Tail(p)) ELSE p

RECURSIVE RStrip(_)
RStrip(p) == IF p # <<>> /\ p[Len(p)] = "/" THEN RStrip(SubSeq(p, 1, Len(p) - 1)) ELSE p

Strip(p) == RStrip(LStrip(p))

\* `op = event.path.strip("/")` for a path of at most one name segment
PathOp(p) == IF Strip(p) = <<>> THEN "" ELSE Strip(p)[1]

\* _extract_input_data(self._input_path, event.body) of a server built
\* without input_path: the body itself
ExtractInputData(body) == body

\* _update_result_body(self._result_path, original_body, result) of a server
\* built without result_path: the result itself
UpdateResultBody(original, res) == res

\* `event_body and isinstance(event_body, dict)`: a non-empty mapping
Truthy(body) ==
    /\ body.type = "dict"
    /\ body.operation # Absent \/ body.id # Absent \/ body.inputs # Absent

MutClassify(ev) ==
    LET b == ExtractInputData(ev.body)
        p == PathOp(ev.path)
        o == IF Truthy(b) /\ b.operation # Absent THEN b.operation ELSE p
    IN  IF o = "" /\ ev.method # "GET" THEN "infer" ELSE o

\* do_event: the operation of an event. The stripped path when it is not
\* empty; else, for a non-empty mapping body, event_body.get("operation"),
\* which is None when the mapping has no such entry; and "infer" when that
\* left nothing and the method is not GET
Classify(ev) ==
    LET b == ExtractInputData(ev.body)
        p == PathOp(ev.path)
        o == IF Truthy(b)
             THEN (IF p # "" THEN p
                   ELSE IF b.operation = Absent THEN NoneOp ELSE b.operation)
             ELSE p
    IN  IF o \in {"", NoneOp} /\ ev.method # "GET" THEN "infer" ELSE o

\* do_event: `event_id = event_body.get("id", event_id)` for a non-empty mapping
EventId(ev) ==
    IF Truthy(ExtractInputData(ev.body)) /\ ev.body.id # Absent
    THEN ev.body.id ELSE ev.id

\* do_event: the branch of the if/elif chain an operation and a method take.
\* With op None the test hasattr(self, "op_" + op) raises a TypeError.
Row(o, m) ==
    IF o \in {"predict", "infer", "infer_dict", "predict_dict"} THEN "predict"
    ELSE IF o = "ready" /\ m = "GET" THEN "ready"
    ELSE IF o = "" /\ m = "GET" THEN "metadata"
    ELSE IF o = "explain" THEN "explain"
    ELSE IF o = NoneOp THEN "TypeError"
    ELSE IF o \in CustomOps THEN "custom"
    ELSE "illegal"

MutRequiresReadiness(row) == row \in {"predict", "explain", "ready", "metadata"}

\* do_event: the branches that call _pre_event_processing_actions, whose
\* first statement is _check_readiness
RequiresReadiness(row) == row \in {"predict", "explain"}

MutHealthStatus(rdy) == 200

\* do_event, branch "ready": status_code of the Response
HealthStatus(rdy) == IF rdy THEN 200 ELSE 408

HealthResponse(rdy) == [kind |-> "Response", status_code |-> HealthStatus(rdy)]

\* do_event, branch "": the metadata mapping
Metadata(ver, spec_known) ==
    [version |-> ver, kind |-> "dict",
     keys |-> {"name", "version", "inputs", "outputs"}, schema |-> spec_known]

\* do_event: the response of predict and of explain after postprocess
InferResponse(o, id, ver) ==
    [id |-> id, version |-> ver, kind |-> "dict",
     keys |-> {"id", "model_name", "outputs"}
              \cup (IF o = "explain" THEN {} ELSE {"timestamp"})
              \cup (IF ver # NoVersion THEN {"model_version"} ELSE {})]

\* do_event, custom branch: what op_<op>(event) returned
CustomResult(o) == [op |-> o, kind |-> "custom"]

\* _inputs_to_list as a function of self.model_spec and the request.
\* A mapping is known by its keys, and the value it holds for key k is known
\* by k and by the place i of the mapping in the list (0 for a mapping that
\* is the inputs entry itself).

\* input_dict[key] for the i-th mapping
Value(i, k) == [item |-> i, key |-> k]

\* the MLRunInvalidArgumentError of lines 450-453, 465-468 and 470-472, whose
\* message lists the keys in listed, and the AttributeError of line 454
InvalidArgument(listed) ==
    [kind |-> "MLRunInvalidArgumentError", names |-> listed, shape |-> "-",
     rows |-> <<>>]
NoGet == [kind |-> "AttributeError", names |-> <<>>, shape |-> "-", rows |-> <<>>]

\* `[... for key in input_order]` for the i-th mapping
ListOf(order, i) == [p \in DOMAIN order |-> Value(i, order[p])]

\* a lookup `input_dict[key]` raises KeyError
KeyMissing(order, items) ==
    \E i \in DOMAIN items, p \in DOMAIN order : order[p] \notin items[i].keys

\* _inputs_to_list: request["inputs"] when it returns, or what it raises
InputsToList(si, rq) ==
    IF ~(si.known /\ si.names # <<>>) THEN InvalidArgument(<<>>)
    ELSE IF rq.type = "None" THEN NoGet
    ELSE IF rq.type = "list" /\ \A i \in DOMAIN rq.items : rq.items[i].type = "dict"
    THEN IF KeyMissing(si.names, rq.items) THEN InvalidArgument(si.names)
         ELSE [kind |-> "ok", names |-> <<>>, shape |-> "lists",
               rows |-> [i \in DOMAIN rq.items |-> ListOf(si.names, i)]]
    ELSE IF rq.type = "dict"
    THEN IF KeyMissing(si.names, rq.items) THEN InvalidArgument(si.names)
         ELSE [kind |-> "ok", names |-> <<>>, shape |-> "list",
               rows |-> <<ListOf(si.names, 0)>>]
    ELSE InvalidArgument(<<>>)

\* the request _inputs_to_list is handed for the event body b
AsRequest(b) ==
    IF b.type = "None" THEN [type |-> "None", items |-> <<>>]
    ELSE CASE b.inputs = "list" -> [type |-> "list", items |-> <<Plain>>]
           [] b.inputs = "dict" ->
                 [type |-> "dict", items |-> <<[type |-> "dict", keys |-> {"a", "b"}]>>]
           [] b.inputs = "partial" ->
                 [type |-> "dict", items |-> <<[type |-> "dict", keys |-> {"a"}]>>]
           [] OTHER -> NoInputs

\* the exception a step of the pipeline raises for a request body, or "None":
\* _inputs_to_list is InputsToList for self.model_spec (si) and the body;
\* validate needs an "inputs" entry that is a list, which is what
\* _inputs_to_list leaves when it returns; preprocess, predict and explain
\* are the user's.
StepError(step, o, b, si, hk) ==
    CASE step = "_inputs_to_list" ->
            IF InputsToList(si, AsRequest(b)).kind = "ok" THEN "None"
            ELSE InputsToList(si, AsRequest(b)).kind
      [] step = "preprocess" ->
            IF hk.preprocess = "raise" THEN "PreprocessError" ELSE "None"
      [] step = "validate" ->
            IF b.type = "None" THEN "TypeError"
            ELSE IF b.inputs = Absent THEN "Exception"
            ELSE IF b.inputs = "list" \/ o \in {"infer_dict", "predict_dict"}
            THEN "None"
            ELSE "Exception"
      [] step \in {"predict", "explain"} ->
            IF hk.model = "raise" THEN "ModelError" ELSE "None"
      [] OTHER -> "None"

\* the index in Pipeline(o) of the first step that raises, 0 when none does
FirstFailure(o, b, si, hk) ==
    LET P == Pipeline(o)
        bad == {i \in DOMAIN P : StepError(P[i], o, b, si, hk) # "None"}
    IN  IF bad = {} THEN 0
        ELSE CHOOSE i \in bad : \A j \in bad : i <= j

\* do_event, except branch of predict/explain: `request["id"] = event_id`
\* and one push of the error when a pusher is configured
ErrorPushes(logger, o, id) ==
    IF logger THEN <<[op |-> o, kind |-> "error", request_id |-> id]>> ELSE <<>>

MutResultPushes(logger, o, b) ==
    <<[op |-> o, kind |-> "result", request_id |-> b.id]>>

\* do_event after postprocess: one push of request and response when a
\* pusher is configured (logged_results returns None, None)
ResultPushes(logger, o, b) ==
    IF logger THEN <<[op |-> o, kind |-> "result", request_id |-> b.id]>> ELSE <<>>

\* what leaves a _ModelLogPusher.push that reached the output stream: the
\* stream's exception, which push does not catch
SinkRaises(ps, hk) == ps # <<>> /\ hk.sink = "raise"

\* do_event after a pipeline that ran to its end: the outcome when ps are
\* the pushes made for the result
Answer(ev, o, hk, ver, P, ps) ==
    [calls |-> P,
     result |-> IF SinkRaises(ps, hk) THEN Raised("SinkError") ELSE Response,
     terminated |-> FALSE,
     ebody |-> IF SinkRaises(ps, hk) THEN OriginalBody
               ELSE UpdateResultBody(ev.body, InferResponse(o, EventId(ev), ver)),
     pushes |-> ps]

\* do_event after step f of the pipeline raised exc: the outcome when ps are
\* the pushes made for the error
Failure(hk, P, f, exc, ps) ==
    [calls |-> SubSeq(P, 1, f),
     result |-> IF SinkRaises(ps, hk) THEN Raised("SinkError") ELSE Raised(exc),
     terminated |-> FALSE,
     ebody |-> OriginalBody,
     pushes |-> ps]

MutPushesError(step) == TRUE

\* do_event: the steps inside the try statement whose except branch pushes
\* the error; _pre_event_processing_actions and postprocess are outside it
PushesError(step) == step \in {"predict", "explain"}

\* the outcome when f is the first step of pipeline P that raises
ServeFrom(ev, o, hk, logger, ver, si, P, f) ==
    IF f = 0
    THEN Answer(ev, o, hk, ver, P, ResultPushes(logger, o, ExtractInputData(ev.body)))
    ELSE Failure(hk, P, f,
                 StepError(P[f], o, ExtractInputData(ev.body), si, hk),
                 IF PushesError(P[f])
                 THEN ErrorPushes(logger, o, EventId(ev)) ELSE <<>>)

\* do_event for a predict or explain operation once _check_readiness has
\* returned: the hooks run, the pushes made, what is returned or raised and
\* what event.body is then. The pusher samples and batches by 1.
Serve(ev, o, hk, logger, ver, si) ==
    ServeFrom(ev, o, hk, logger, ver, si, Pipeline(o),
              FirstFailure(o, ExtractInputData(ev.body), si, hk))

\* do_event for the branches that do not call _check_readiness
Terminal(ev, o, row, rdy, ver, spec_known) ==
    CASE row = "ready" ->
            [calls |-> <<>>, result |-> Response, terminated |-> TRUE,
             ebody |-> HealthResponse(rdy), pushes |-> <<>>]
      [] row = "metadata" ->
            [calls |-> <<>>, result |-> Response, terminated |-> TRUE,
             ebody |-> UpdateResultBody(ev.body, Metadata(ver, spec_known)),
             pushes |-> <<>>]
      [] row = "custom" ->
            [calls |-> <<"op_custom">>, result |-> Response, terminated |-> FALSE,
             ebody |-> UpdateResultBody(ev.body, CustomResult(o)),
             pushes |-> <<>>]
      [] row = "TypeError" ->
            [calls |-> <<>>, result |-> Raised("TypeError"), terminated |-> FALSE,
             ebody |-> OriginalBody, pushes |-> <<>>]
      [] OTHER ->
            [calls |-> <<>>, result |-> IllegalOperation(o, ev.method),
             terminated |-> FALSE, ebody |-> OriginalBody, pushes |-> <<>>]

\* where the worker is once do_event is left with this outcome
Left(out) == IF out.result = Response THEN "done" ELSE "raised"

\* the worker takes its next event when the previous one has left do_event
Idle == rpc \in {"idle", "done", "rejected", "raised"} /\ events < MaxEvents

\* do_event is left with the outcome out
Leaves(out) ==
    /\ rpc' = Left(out)
    /\ calls' = out.calls
    /\ result' = out.result
    /\ terminated' = out.terminated
    /\ ebody' = out.ebody
    /\ pushes' = out.pushes
    /\ seen_spec' = NoSpec
    /\ seen_version' = ""

\* _inputs_to_list is the step of the pipeline that raises
InputsFail(o, b, si, hk) ==
    \E i \in DOMAIN Pipeline(o) :
        Pipeline(o)[i] = "_inputs_to_list" /\ FirstFailure(o, b, si, hk) = i

\* the steps of the pipeline up to preprocess, which the worker enters once
\* _check_readiness and _inputs_to_list have returned
Entered(o) ==
    (IF o \in {"infer_dict", "predict_dict"} THEN <<"_inputs_to_list">> ELSE <<>>)
    \o <<"preprocess">>

\* do_event for a predict or explain operation, from the return of
\* _check_readiness to the call of preprocess (lines 227-230): for the dict
\* operations _inputs_to_list reads self.model_spec; when it raises do_event
\* is left, otherwise the worker is in the user's preprocess, validate and
\* predict or explain
Begins(ev, o, hk) ==
    IF InputsFail(o, ExtractInputData(ev.body), spec_inputs, hk)
    THEN Leaves(Serve(ev, o, hk, model_logger, version, spec_inputs))
    ELSE /\ rpc' = "model"
         /\ calls' = Entered(o)
         /\ result' = NoResult
         /\ terminated' = FALSE
         /\ ebody' = OriginalBody
         /\ pushes' = <<>>
         /\ seen_spec' = spec_inputs
         /\ seen_version' = ""

\* do_event, from its first statement up to the first test of self.ready in
\* _check_readiness for the branches that make it, and to its end for the
\* others; when the model is ready the worker goes on into the pipeline.
do_event_any(trig, ev, hk) ==
    /\ Idle
    /\ events' = events + 1
    /\ trigger' = trig
    /\ event' = ev
    /\ hooks' = hk
    /\ polls' = 0
    /\ \E o \in {Classify(ev)} :
         \E row \in {Row(o, ev.method)} :
           /\ op' = o
           /\ IF RequiresReadiness(row) /\ ~ready
              THEN /\ calls' = <<>>
                   /\ rpc' = IF IsInteractive(trig) THEN "rejected" ELSE "wait"
                   /\ result' = IF IsInteractive(trig) THEN NotReadyYet ELSE NoResult
                   /\ terminated' = FALSE
                   /\ ebody' = OriginalBody
                   /\ pushes' = <<>>
                   /\ UNCHANGED <<seen_spec, seen_version>>
              ELSE IF RequiresReadiness(row)
              THEN Begins(ev, o, hk)
              ELSE Leaves(Terminal(ev, o, row, ready, version, model_spec))
    /\ UNCHANGED serverVars
    /\ UNCHANGED postInitVars
    /\ UNCHANGED attrVars
    /\ UNCHANGED componentVars

\* do_event, lines 276-298 and 339-360: predict or explain has returned, or
\* preprocess, validate, predict or explain has raised. After an exception
\* of predict or explain self._model_logger is read and the error pushed;
\* otherwise the response is built, which reads self.version, and the worker
\* is in the user's postprocess
do_event_model ==
    /\ rpc = "model"
    /\ \E f \in {FirstFailure(op, ExtractInputData(event.body), seen_spec, hooks)} :
         IF f # 0 /\ Pipeline(op)[f] # "postprocess"
         THEN Leaves(ServeFrom(event, op, hooks, model_logger, version, seen_spec,
                               Pipeline(op), f))
         ELSE /\ rpc' = "postprocess"
              /\ calls' = Pipeline(op)
              /\ seen_version' = version
              /\ UNCHANGED <<result, terminated, ebody, pushes, seen_spec>>
    /\ UNCHANGED <<events, trigger, op, polls, event, hooks>>
    /\ UNCHANGED serverVars
    /\ UNCHANGED postInitVars
    /\ UNCHANGED attrVars
    /\ UNCHANGED componentVars

\* do_event, lines 371-390: postprocess has returned or raised; after its
\* return self._model_logger is read, the result is pushed and event.body
\* is written
do_event_postprocess ==
    /\ rpc = "postprocess"
    /\ Leaves(ServeFrom(event, op, hooks, model_logger, seen_version, seen_spec,
                        Pipeline(op),
                        FirstFailure(op, ExtractInputData(event.body), seen_spec,
                                     hooks)))
    /\ UNCHANGED <<events, trigger, op, polls, event, hooks>>
    /\ UNCHANGED serverVars
    /\ UNCHANGED postInitVars
    /\ UNCHANGED attrVars
    /\ UNCHANGED componentVars

\* a request for operation o as a client of the v2 protocol sends it: the
\* operation in the path, a mapping body with inputs
Request(o) ==
    [id |-> "e1", path |-> <<"/", o>>, method |-> "POST",
     body |-> [type |-> "dict", operation |-> Absent, id |-> Absent,
               inputs |-> IF o \in {"infer_dict", "predict_dict"}
                          THEN "dict" ELSE "list"]]

\* do_event for such a request, with hooks and a sink that do not raise
do_event(trig, o) == \E ev \in {Request(o)} : do_event_any(trig, ev, NoFaults)

\* _check_readiness: one iteration of the wait loop, time.sleep(5) and then
\* the test of self.ready; when the model is ready the worker goes on into
\* the pipeline
check_readiness_poll ==
    /\ rpc = "wait"
    /\ IF LoopReturns(ready)
       THEN /\ polls' = 0
            /\ Begins(event, op, hooks)
       ELSE /\ polls' = polls + 1
            /\ rpc' = IF LoopExhausted(polls') THEN "timeout" ELSE "wait"
            /\ UNCHANGED <<calls, result, terminated, ebody, pushes>>
            /\ UNCHANGED <<seen_spec, seen_version>>
    /\ UNCHANGED <<events, trigger, op, event, hooks>>
    /\ UNCHANGED serverVars
    /\ UNCHANGED postInitVars
    /\ UNCHANGED attrVars
    /\ UNCHANGED componentVars

\* _check_readiness: the raise after the loop, which reads self.error
check_readiness_raise ==
    /\ rpc = "timeout"
    /\ rpc' = "rejected"
    /\ result' = NotReady(TimeoutReason(error))
    /\ UNCHANGED <<events, trigger, op, polls, calls>>
    /\ UNCHANGED serverVars
    /\ UNCHANGED postInitVars
    /\ UNCHANGED attrVars
    /\ UNCHANGED componentVars
    /\ UNCHANGED eventVars

\* ------------------------------------------------------- _inputs_to_list

\* the call of _inputs_to_list by _pre_event_processing_actions
inputs_to_list ==
    /\ new_inputs = NotConverted
    /\ new_inputs' = InputsToList(spec_inputs, req_inputs)
    /\ UNCHANGED req_inputs
    /\ UNCHANGED serverVars
    /\ UNCHANGED postInitVars
    /\ UNCHANGED requestVars
    /\ UNCHANGED attrVars
    /\ UNCHANGED eventVars
    /\ UNCHANGED pushVars
    /\ UNCHANGED regVars

\* ------------------------------------------------------- _ModelLogPusher
\* The output stream is there (the pusher is built under a context whose
\* stream is enabled); sink holds every call of its push, also one that
\* raises. A row and a record are known by the number of the push call that
\* made them. In do_event's actions the pusher samples and batches by 1, so
\* that each push call is one call of the stream, listed in `pushes`.

MutSampleNext(s, n) == 0

\* push: `self._sample_iter = (self._sample_iter + 1) % self.stream_sample`
SampleNext(s, n) == (s + 1) % n

MutSampled(s) == TRUE

\* push: `self.output_stream and self._sample_iter == 0`
Sampled(s) == s = 0

MutBatchNext(b, n) == 0

\* push: `self._batch_iter = (self._batch_iter + 1) % self.stream_batch`
BatchNext(b, n) == (b + 1) % n

MutErrorRecords(n) == <<>>

\* push, error branch: the one call `self.output_stream.push([data], ...)`
\* whose data holds request, op, when and error
ErrorRecords(n) == <<[kind |-> "error", rows |-> <<n>>]>>

\* push, batch of 1: data holds request, op, resp, when and microsec
FlatRecord(n) == [kind |-> "flat", rows |-> <<n>>]

\* push, batch above 1: data holds the headers and, as values, the list
\* object self._batch itself (`ref`); rows is what the list holds at the call
TableRecord(rows, id) == [kind |-> "table", rows |-> rows, ref |-> id]

MutBatched(iter, rows, n) == Append(rows, n)

\* push, `if self._batch_iter == 0: self._batch = []` and the append
Batched(iter, rows, n) == Append(IF iter = 0 THEN <<>> ELSE rows, n)

MutNewList(id) == id

\* push, `self._batch = []`: the attribute is bound to a new list object
NewList(id) == id + 1

\* the list objects when list id holds rows
Put(heap, id, rows) ==
    IF id + 1 > Len(heap) THEN Append(heap, rows) ELSE [heap EXCEPT ![id + 1] = rows]

\* push, `(now_date() - start).microseconds`: the microseconds attribute of
\* a timedelta of d microseconds, which is what is left of d after its days
\* and whole seconds
Microseconds(d) == d % 1000000

MutErrorSample(s, n) == (s + 1) % n

\* push, error branch: it returns (line 518) before line 520 is reached
ErrorSample(s, n) == s

\* _ModelLogPusher.push called by one thread at a time, with or without
\* error, d microseconds after start
push(err, d) ==
    /\ Len(plog) < MaxPushes
    /\ plog' = Append(plog, IF err THEN "error" ELSE "ok")
    /\ \E n \in {Len(plog) + 1} :
         IF err
         THEN /\ sink' = sink \o ErrorRecords(n)
              /\ sample_iter' = ErrorSample(sample_iter, stream_sample)
              /\ UNCHANGED <<batch_iter, lists, batch_id, elapsed, microsec>>
         ELSE /\ sample_iter' = SampleNext(sample_iter, stream_sample)
              /\ IF ~Sampled(sample_iter')
                 THEN UNCHANGED <<batch_iter, lists, batch_id, elapsed, microsec, sink>>
                 ELSE /\ elapsed' = d
                      /\ microsec' = Microseconds(d)
                      /\ IF stream_batch > 1
                         THEN /\ batch_id' = IF batch_iter = 0 THEN NewList(batch_id)
                                             ELSE batch_id
                              /\ lists' = Put(lists, batch_id',
                                              Batched(batch_iter, batch, n))
                              /\ batch_iter' = BatchNext(batch_iter, stream_batch)
                              /\ sink' = IF batch_iter' = 0
                                         THEN Append(sink, TableRecord(batch', batch_id'))
                                         ELSE sink
                         ELSE /\ sink' = Append(sink, FlatRecord(n))
                              /\ UNCHANGED <<batch_iter, lists, batch_id>>
    /\ UNCHANGED <<stream_sample, stream_batch, tpc, tn, ttmp>>
    /\ UNCHANGED serverVars
    /\ UNCHANGED postInitVars
    /\ UNCHANGED requestVars
    /\ UNCHANGED attrVars
    /\ UNCHANGED eventVars
    /\ UNCHANGED regVars
    /\ UNCHANGED inputVars

\* push called by several threads at once. push takes no lock, so a thread
\* may be overtaken between any two of its reads and writes of the pusher's
\* attributes; each action below is one such read or write with the test
\* that follows it, or one call of a list or of the stream. Every thread makes one call, without error; the
\* microsec it computes is a local of the call and is left out.

\* thread t moves from statement `from` to statement `to`
Goes(t, from, to) == tpc[t] = from /\ tpc' = [tpc EXCEPT ![t] = to]

\* what no statement of push writes
PushFrame ==
    /\ UNCHANGED <<stream_sample, stream_batch, elapsed, microsec>>
    /\ UNCHANGED serverVars
    /\ UNCHANGED postInitVars
    /\ UNCHANGED requestVars
    /\ UNCHANGED attrVars
    /\ UNCHANGED eventVars
    /\ UNCHANGED regVars
    /\ UNCHANGED inputVars

\* the call of push and its `if error:` test, with error None
push_enter(t) ==
    /\ Goes(t, "idle", "sample_load")
    /\ plog' = Append(plog, "ok")
    /\ tn' = [tn EXCEPT ![t] = Len(plog) + 1]
    /\ UNCHANGED <<batch_id, sample_iter, batch_iter, lists, sink, ttmp>>
    /\ PushFrame

\* line 520, right-hand side: the read of self._sample_iter
push_sample_load(t) ==
    /\ Goes(t, "sample_load", "sample_store")
    /\ ttmp' = [ttmp EXCEPT ![t] = sample_iter]
    /\ UNCHANGED <<batch_id, sample_iter, batch_iter, lists, sink, plog, tn>>
    /\ PushFrame

\* line 520: the assignment to self._sample_iter
push_sample_store(t) ==
    /\ Goes(t, "sample_store", "sample_test")
    /\ sample_iter' = SampleNext(ttmp[t], stream_sample)
    /\ UNCHANGED <<batch_id, batch_iter, lists, sink, plog, tn, ttmp>>
    /\ PushFrame

\* lines 521 and 524: the tests of self._sample_iter and self.stream_batch
push_sample_test(t) ==
    /\ tpc[t] = "sample_test"
    /\ tpc' = [tpc EXCEPT ![t] = IF ~Sampled(sample_iter) THEN "returned"
                                  ELSE IF stream_batch > 1 THEN "batch_test"
                                  ELSE "flat_push"]
    /\ UNCHANGED <<batch_id, sample_iter, batch_iter, lists, sink, plog, tn, ttmp>>
    /\ PushFrame

\* line 525: the test of self._batch_iter
push_batch_test(t) ==
    /\ tpc[t] = "batch_test"
    /\ tpc' = [tpc EXCEPT ![t] = IF batch_iter = 0 THEN "batch_reset"
                                  ELSE "batch_append"]
    /\ UNCHANGED <<batch_id, sample_iter, batch_iter, lists, sink, plog, tn, ttmp>>
    /\ PushFrame

\* line 526: `self._batch = []`
push_batch_reset(t) ==
    /\ Goes(t, "batch_reset", "batch_append")
    /\ batch_id' = NewList(batch_id)
    /\ lists' = Put(lists, batch_id', <<>>)
    /\ UNCHANGED <<sample_iter, batch_iter, sink, plog, tn, ttmp>>
    /\ PushFrame

\* line 527: the read of self._batch
push_batch_read(t) ==
    /\ Goes(t, "batch_append", "batch_call")
    /\ ttmp' = [ttmp EXCEPT ![t] = batch_id]
    /\ UNCHANGED <<batch_id, sample_iter, batch_iter, lists, sink, plog, tn>>
    /\ PushFrame

\* lines 527-529: the call of append on the list that was read
push_batch_append(t) ==
    /\ Goes(t, "batch_call", "iter_load")
    /\ lists' = Put(lists, ttmp[t], Append(lists[ttmp[t] + 1], tn[t]))
    /\ UNCHANGED <<batch_id, sample_iter, batch_iter, sink, plog, tn, ttmp>>
    /\ PushFrame

\* line 530, right-hand side: the read of self._batch_iter
push_iter_load(t) ==
    /\ Goes(t, "iter_load", "iter_store")
    /\ ttmp' = [ttmp EXCEPT ![t] = batch_iter]
    /\ UNCHANGED <<batch_id, sample_iter, batch_iter, lists, sink, plog, tn>>
    /\ PushFrame

\* line 530: the assignment to self._batch_iter
push_iter_store(t) ==
    /\ Goes(t, "iter_store", "iter_test")
    /\ batch_iter' = BatchNext(ttmp[t], stream_batch)
    /\ UNCHANGED <<batch_id, sample_iter, lists, sink, plog, tn, ttmp>>
    /\ PushFrame

\* line 532: the test of self._batch_iter
push_iter_test(t) ==
    /\ tpc[t] = "iter_test"
    /\ tpc' = [tpc EXCEPT ![t] = IF batch_iter = 0 THEN "table_push"
                                  ELSE "returned"]
    /\ UNCHANGED <<batch_id, sample_iter, batch_iter, lists, sink, plog, tn, ttmp>>
    /\ PushFrame

\* lines 533-542: `data["values"] = self._batch`, the read of self._batch
push_table_read(t) ==
    /\ Goes(t, "table_push", "table_call")
    /\ ttmp' = [ttmp EXCEPT ![t] = batch_id]
    /\ UNCHANGED <<batch_id, sample_iter, batch_iter, lists, sink, plog, tn>>
    /\ PushFrame

\* line 543: the push of the list that was read, as it is now
push_table_push(t) ==
    /\ Goes(t, "table_call", "returned")
    /\ sink' = Append(sink, TableRecord(lists[ttmp[t] + 1], ttmp[t]))
    /\ UNCHANGED <<batch_id, sample_iter, batch_iter, lists, plog, tn, ttmp>>
    /\ PushFrame

\* lines 545-553: the push of the flat record
push_flat_push(t) ==
    /\ Goes(t, "flat_push", "returned")
    /\ sink' = Append(sink, FlatRecord(tn[t]))
    /\ UNCHANGED <<batch_id, sample_iter, batch_iter, lists, plog, tn, ttmp>>
    /\ PushFrame

\* ------------------------------------------------- _init_endpoint_record
\* The run db is not part of the source. Its get_model_endpoint answers with
\* the record it holds or raises MLRunNotFoundError when it holds none;
\* create_model_endpoint stores and returns the record it is given;
\* patch_model_endpoint writes the attributes into the record it holds and
\* returns it; each of its calls may also fail.

\* how a call of the run db ends
CallOutcomes == {"ok", "raise"}
\* how get_model_endpoint ends: with its answer, or with one of the errors
LookupOutcomes == {"ok", "MLRunBadRequestError", "raise"}

\* lines 587-592: what get_model_endpoint does when it does not fail
LookupAnswer(reg, ans) ==
    IF ans = "ok" THEN (IF reg.exists THEN "found" ELSE "MLRunNotFoundError")
    ELSE ans

MutAfterLookup(a) ==
    CASE a \in {"found", "MLRunNotFoundError", "MLRunBadRequestError"} -> "function"
      [] OTHER -> "raised"

\* lines 586-599: where the run is after get_model_endpoint. A found record
\* and MLRunNotFoundError both go on; MLRunBadRequestError is logged and the
\* function returns; any other exception is not caught
AfterLookup(a) ==
    CASE a \in {"found", "MLRunNotFoundError"} -> "function"
      [] a = "MLRunBadRequestError" -> "returned"
      [] OTHER -> "raised"

MutCreates(ep, track) == ~ep.exists

\* line 607: `if not model_ep and model.context.server.track_models`
Creates(ep, track) == ~ep.exists /\ track

MutDrift(local, ep, track) ==
    {f \in Fields \ {"monitoring_mode"} : local[f] # ep.fields[f]}

\* lines 648-671: the attributes of the patch, one for each field whose local
\* value differs from the record's; the monitoring mode is compared as
\* `(mode == enabled) != track_models`
Drift(local, ep, track) ==
    {f \in Fields \ {"monitoring_mode"} : local[f] # ep.fields[f]}
    \cup (IF (ep.fields["monitoring_mode"] = "enabled") # track
          THEN {"monitoring_mode"} ELSE {})

\* lines 621-643: the record handed to create_model_endpoint
NewRecord(local) == [exists |-> TRUE, fields |-> local]

\* the record after patch_model_endpoint wrote the attributes
Patched(rec, local, attrs) ==
    [exists |-> rec.exists,
     fields |-> [f \in Fields |-> IF f \in attrs THEN local[f] ELSE rec.fields[f]]]

\* what no statement of _init_endpoint_record writes
RegFrame ==
    /\ UNCHANGED track_models
    /\ UNCHANGED serverVars
    /\ UNCHANGED postInitVars
    /\ UNCHANGED requestVars
    /\ UNCHANGED <<version, model_path, versioned_name>>
    /\ UNCHANGED eventVars
    /\ UNCHANGED pushVars
    /\ UNCHANGED inputVars

\* lines 571-585: get_model() when self.model_spec is not set, and the local
\* values, which are those of self.model_spec from here on; the run then
\* waits for the run db
reconcile_get_model(r) ==
    /\ rcpc[r] = "idle"
    /\ rcpc' = [rcpc EXCEPT ![r] = "lookup"]
    /\ \E si \in {EndpointSpec(model_path, spec_inputs)} :
         /\ spec_inputs' = si
         /\ model_spec' = si.known
    /\ UNCHANGED <<registry, rcep, rcret, rcans, rclog>>
    /\ RegFrame

\* lines 586-599: the lookup of the record
reconcile_lookup(r, ans) ==
    /\ rcpc[r] = "lookup"
    /\ UNCHANGED <<model_spec, spec_inputs>>
    /\ \E a \in {LookupAnswer(registry, ans)} : \E to \in {AfterLookup(a)} :
         /\ rcans' = [rcans EXCEPT ![r] = Append(@, a)]
         /\ rcpc' = [rcpc EXCEPT ![r] = to]
         /\ rcep' = [rcep EXCEPT ![r] = IF a = "found" THEN registry ELSE NoRecord]
         /\ rcret' = [rcret EXCEPT ![r] = CASE to = "returned" -> "None"
                                            [] to = "raised" -> "raise"
                                            [] OTHER -> @]
    /\ UNCHANGED <<registry, rclog>>
    /\ RegFrame

\* lines 601-606: get_function, which no try statement encloses
reconcile_function(r, ans) ==
    /\ rcpc[r] = "function"
    /\ rcpc' = [rcpc EXCEPT ![r] = IF ans = "ok" THEN "write" ELSE "raised"]
    /\ rcret' = [rcret EXCEPT ![r] = IF ans = "ok" THEN @ ELSE "raise"]
    /\ rcans' = [rcans EXCEPT ![r] = Append(@, ans)]
    /\ UNCHANGED <<registry, rcep, rclog>>
    /\ UNCHANGED <<model_spec, spec_inputs>>
    /\ RegFrame

\* lines 607-690: the create, the patch or neither, and the return. ans is
\* how the call of the run db ends when one is made.
reconcile_write(r, ans) ==
    /\ rcpc[r] = "write"
    /\ \E local \in {Identity(model_spec, track_models)} :
         IF Creates(rcep[r], track_models)
         THEN /\ rclog' = Append(rclog, [call |-> "create", run |-> r, attributes |-> {}])
              /\ rcans' = [rcans EXCEPT ![r] = Append(@, ans)]
              /\ IF ans = "ok"
                 THEN /\ registry' = NewRecord(local)
                      /\ rcep' = [rcep EXCEPT ![r] = NewRecord(local)]
                      /\ rcpc' = [rcpc EXCEPT ![r] = "returned"]
                      /\ rcret' = [rcret EXCEPT ![r] = "uid"]
                 ELSE /\ rcpc' = [rcpc EXCEPT ![r] = "raised"]
                      /\ rcret' = [rcret EXCEPT ![r] = "raise"]
                      /\ UNCHANGED <<registry, rcep>>
         ELSE IF rcep[r].exists
         THEN \E attrs \in {Drift(local, rcep[r], track_models)} :
                IF attrs = {}
                THEN /\ rcpc' = [rcpc EXCEPT ![r] = "returned"]
                     /\ rcret' = [rcret EXCEPT ![r] = "uid"]
                     /\ UNCHANGED <<registry, rcep, rcans, rclog>>
                ELSE /\ rclog' = Append(rclog, [call |-> "patch", run |-> r,
                                                attributes |-> attrs])
                     /\ rcans' = [rcans EXCEPT ![r] = Append(@, ans)]
                     /\ IF ans = "ok"
                        THEN /\ registry' = Patched(registry, local, attrs)
                             /\ rcep' = [rcep EXCEPT ![r] = registry']
                             /\ rcpc' = [rcpc EXCEPT ![r] = "returned"]
                             /\ rcret' = [rcret EXCEPT ![r] = "uid"]
                        ELSE /\ rcpc' = [rcpc EXCEPT ![r] = "raised"]
                             /\ rcret' = [rcret EXCEPT ![r] = "raise"]
                             /\ UNCHANGED <<registry, rcep>>
         ELSE /\ rcpc' = [rcpc EXCEPT ![r] = "returned"]
              /\ rcret' = [rcret EXCEPT ![r] = "None"]
              /\ UNCHANGED <<registry, rcep, rcans, rclog>>
    /\ UNCHANGED <<model_spec, spec_inputs>>
    /\ RegFrame

\* -------------------------------------------------------- specifications

\* the steps of post_init and of the load that every context takes
NextLoadBase ==
    \/ \E c \in Callers, mode \in Modes : post_init(c, mode)
    \/ \E c \in Callers, outcome \in {"ok"} \cup LoadExceptions :
           load_and_update_state(c, outcome)
    \/ \E c \in Callers : post_init_tail(c)

NextLoad ==
    \/ NextLoadBase
    \/ \E c \in Callers, outcome \in RegistryOutcomes : post_init_endpoint(c, outcome)
    \/ \E c \in Callers : post_init_logger(c)

NextServe ==
    \/ /\ Idle
       /\ \E trig \in Triggers, o \in ServeOps : do_event(trig, o)
    \/ check_readiness_poll
    \/ check_readiness_raise
    \/ do_event_model
    \/ do_event_postprocess

Next == NextLoad \/ NextServe

\* under a mock context without forced monitoring _init_endpoint_record is
\* not called
NextMock == NextLoadBase \/ NextServe

\* the calls of get_model and the reads of versioned_model_name
NextAttrs == get_model \/ versioned_model_name

\* the server in every hosting context, with its post_init calls, its loader
\* threads and its worker
Spec == Init /\ [][Next \/ NextAttrs]_vars

\* construction and loading alone: no event arrives
SpecLoad == Init /\ [][NextLoad]_vars

\* the context of a mock server: no endpoint record, no output stream
MockContext ==
    [server |-> TRUE, is_mock |-> TRUE, monitoring_mock |-> FALSE,
     stream_enabled |-> FALSE]

InitServe ==
    Init /\ context = MockContext /\ version = NoVersion /\ model_path = "None"

\* the server under a mock context, loading while its worker serves events
SpecServe == InitServe /\ [][NextMock]_vars

\* the readiness states a server is found in by an event: before any
\* post_init, and after one asynchronous post_init has returned, with its
\* load() running, returned or raised
ReadinessStates == {"NotLoaded", "Loading", "Ready", "Failed"}

\* a server under a mock context in readiness state r. Its first post_init,
\* if made, was asynchronous and has returned; its load() may have called
\* get_model() and set self.model_spec.
Snapshot(r, stream, ver, si) ==
    LET ctx == [MockContext EXCEPT !.stream_enabled = stream]
        made == r # "NotLoaded"
        first(x, y) == [c \in Callers |-> IF made /\ c = 1 THEN x ELSE y]
    IN  /\ model = FALSE
        /\ ready = (r = "Ready")
        /\ error = IF r = "Failed" THEN "ValueError" ELSE NoError
        /\ context = ctx
        /\ model_endpoint_uid = "None"
        /\ model_logger = (made /\ stream)
        /\ pipc = first("returned", "idle")
        /\ pimode = first("async", "sync")
        /\ piraise = [c \in Callers |-> NoRaise]
        /\ pilog = first(TailSteps(ctx), <<>>)
        /\ load = first(CASE r = "Loading" -> "running"
                           [] r = "Ready" -> "ok"
                           [] OTHER -> "ValueError", "none")
        /\ version = ver
        /\ model_spec = (made /\ si.known)
        /\ spec_inputs = IF made /\ si.known THEN si ELSE NoSpec
        /\ model_path = IF made /\ si.known THEN "store" ELSE "None"
        /\ versioned_name = "None"

\* do_event writes nothing of the server, so the events a worker took before
\* leave the snapshot as it is: the event examined is the last one it takes
InitEvent ==
    /\ \E r \in ReadinessStates, stream \in BOOLEAN, ver \in Versions,
          si \in EventSpecs : Snapshot(r, stream, ver, si)
    /\ events = MaxEvents - 1
    /\ rpc = "idle"
    /\ trigger = NoTrigger
    /\ op = "infer"
    /\ polls = 0
    /\ calls = <<>>
    /\ result = NoResult
    /\ event = NoEvent
    /\ hooks = NoFaults
    /\ terminated = FALSE
    /\ ebody = OriginalBody
    /\ pushes = <<>>
    /\ seen_spec = NoSpec
    /\ seen_version = ""
    /\ NewPusher(1, 1)
    /\ NewRegistrar(NoRecord, FALSE)
    /\ NoConversion

NextEvent ==
    \/ /\ Idle
       /\ \E trig \in Triggers, ev \in Events, hk \in Hooks : do_event_any(trig, ev, hk)
    \/ check_readiness_poll
    \/ check_readiness_raise
    \/ do_event_model
    \/ do_event_postprocess

\* a server whose readiness state does not change, and the events of its worker
SpecEvent == InitEvent /\ [][NextEvent]_vars

\* an event for operation o with a stream trigger, taken by the worker while
\* the first load ran: do_event has found the model not ready and entered the
\* wait loop of _check_readiness
Waiting(o) ==
    /\ events = 1
    /\ rpc = "wait"
    /\ trigger = "stream"
    /\ op = o
    /\ polls = 0
    /\ calls = <<>>
    /\ result = NoResult
    /\ event = Request(o)
    /\ hooks = NoFaults
    /\ terminated = FALSE
    /\ ebody = OriginalBody
    /\ pushes = <<>>
    /\ seen_spec = NoSpec
    /\ seen_version = ""

InitWait ==
    /\ \E stream \in BOOLEAN, ver \in Versions, si \in {NoSpec, ArtifactSpec} :
           Snapshot("Loading", stream, ver, si)
    /\ \E o \in ReadinessOps : Waiting(o)
    /\ NewPusher(1, 1)
    /\ NewRegistrar(NoRecord, FALSE)
    /\ NoConversion

NextWait ==
    \/ \E c \in Callers, outcome \in {"ok"} \cup LoadExceptions :
           load_and_update_state(c, outcome)
    \/ check_readiness_poll
    \/ check_readiness_raise
    \/ do_event_model
    \/ do_event_postprocess

\* the worker in the wait loop while the loader thread runs load(). The
\* worker's thread is scheduled again after each time.sleep(5), so an enabled
\* step of the loop is taken; load() itself may run for ever. The hooks of
\* the events of this specification make no call that blocks and return, so
\* the worker goes on from each of them.
SpecWait ==
    /\ InitWait
    /\ [][NextWait]_vars
    /\ WF_vars(check_readiness_poll)
    /\ WF_vars(check_readiness_raise)
    /\ WF_vars(do_event_model)
    /\ WF_vars(do_event_postprocess)

\* the worker has no event at hand
NoEventAtHand ==
    /\ events = 0
    /\ rpc = "idle"
    /\ trigger = NoTrigger
    /\ op = "infer"
    /\ polls = 0
    /\ calls = <<>>
    /\ result = NoResult
    /\ event = NoEvent
    /\ hooks = NoFaults
    /\ terminated = FALSE
    /\ ebody = OriginalBody
    /\ pushes = <<>>
    /\ seen_spec = NoSpec
    /\ seen_version = ""

\* a ready server under a context whose stream is enabled, after its
\* post_init
ServerAtRest == Snapshot("Ready", TRUE, NoVersion, NoSpec) /\ NoEventAtHand

InitPush ==
    /\ ServerAtRest
    /\ \E n \in Samples, b \in Batches : NewPusher(n, b)
    /\ NewRegistrar(NoRecord, FALSE)
    /\ NoConversion

\* a ready server whose model_spec is si, and the request of a predict_dict
\* or infer_dict event that _pre_event_processing_actions is handed
InitInputs ==
    /\ \E si \in DeclaredInputs :
          Snapshot("Ready", FALSE, NoVersion, si)
    /\ NoEventAtHand
    /\ NewPusher(1, 1)
    /\ NewRegistrar(NoRecord, FALSE)
    /\ req_inputs \in Requests
    /\ new_inputs = NotConverted

NextInputs == inputs_to_list

\* _inputs_to_list applied to one request
SpecInputs == InitInputs /\ [][NextInputs]_vars

NextPush == \E err \in BOOLEAN, d \in Durations : push(err, d)

\* one pusher and the push calls made on it one after the other
SpecPush == InitPush /\ [][NextPush]_vars

NextPushRace ==
    \/ \E t \in Threads : push_enter(t)
    \/ \E t \in Threads : push_sample_load(t)
    \/ \E t \in Threads : push_sample_store(t)
    \/ \E t \in Threads : push_sample_test(t)
    \/ \E t \in Threads : push_batch_test(t)
    \/ \E t \in Threads : push_batch_reset(t)
    \/ \E t \in Threads : push_batch_read(t)
    \/ \E t \in Threads : push_batch_append(t)
    \/ \E t \in Threads : push_iter_load(t)
    \/ \E t \in Threads : push_iter_store(t)
    \/ \E t \in Threads : push_iter_test(t)
    \/ \E t \in Threads : push_table_read(t)
    \/ \E t \in Threads : push_table_push(t)
    \/ \E t \in Threads : push_flat_push(t)

\* one pusher and the threads that call push on it at the same time
SpecPushRace == InitPush /\ [][NextPushRace]_vars

\* the context of a deployed server: not a mock, no output stream
TrackedContext ==
    [server |-> TRUE, is_mock |-> FALSE, monitoring_mock |-> FALSE,
     stream_enabled |-> FALSE]

\* a server built with a model object under a deployed context, whose
\* model_spec is known or not, before its post_init
Constructed(spec_known, path) ==
    /\ model = TRUE
    /\ ready = TRUE
    /\ error = NoError
    /\ context = TrackedContext
    /\ model_endpoint_uid = "None"
    /\ model_logger = FALSE
    /\ pipc = [c \in Callers |-> "idle"]
    /\ pimode = [c \in Callers |-> "sync"]
    /\ piraise = [c \in Callers |-> NoRaise]
    /\ pilog = [c \in Callers |-> <<>>]
    /\ load = [c \in Callers |-> "none"]
    /\ version = NoVersion
    /\ model_spec = spec_known
    /\ spec_inputs = IF spec_known THEN ArtifactSpec ELSE NoSpec
    /\ model_path = path
    /\ versioned_name = "None"
    /\ NoEventAtHand
    /\ NewPusher(1, 1)

\* the run r is over
Over(r) == rcpc[r] \in {"returned", "raised"}

\* the run r may start: the runs before it are over
InTurn(r) == \A q \in Runs : q < r => Over(q)

InitReconcile ==
    /\ \E spec_known \in BOOLEAN, path \in ModelPaths : Constructed(spec_known, path)
    /\ \E rec \in {NoRecord} \cup Records, track \in BOOLEAN : NewRegistrar(rec, track)
    /\ NoConversion

NextReconcile ==
    \/ \E r \in Runs : InTurn(r) /\ reconcile_get_model(r)
    \/ \E r \in Runs, ans \in LookupOutcomes : reconcile_lookup(r, ans)
    \/ \E r \in Runs, ans \in CallOutcomes : reconcile_function(r, ans)
    \/ \E r \in Runs, ans \in CallOutcomes : reconcile_write(r, ans)
    \/ NextAttrs

\* one registry and the _init_endpoint_record runs made one after the other
\* for one endpoint, on a server whose other threads call get_model and read
\* versioned_model_name
SpecReconcile == InitReconcile /\ [][NextReconcile]_vars

InitReconcileRace ==
    /\ \E spec_known \in BOOLEAN, path \in ModelPaths : Constructed(spec_known, path)
    /\ NewRegistrar(NoRecord, TRUE)
    /\ NoConversion

NextReconcileRace ==
    \/ \E r \in Runs : reconcile_get_model(r)
    \/ \E r \in Runs, ans \in LookupOutcomes : reconcile_lookup(r, ans)
    \/ \E r \in Runs, ans \in CallOutcomes : reconcile_function(r, ans)
    \/ \E r \in Runs, ans \in CallOutcomes : reconcile_write(r, ans)

\* a registry without a record, tracking enabled, and the runs made for one
\* endpoint at the same time (by the servers of several workers)
SpecReconcileRace == InitReconcileRace /\ [][NextReconcileRace]_vars

\* ---------------------------------------------------------------- claims

InteractiveTriggers == {"None", "http", ""}
Failures == {"ValueError", "IOError"}
LoadsStarted == {c \in Callers : load[c] # "none"}
LoadsInFlight == {c \in Callers : load[c] = "running"}
LoadsResolved == {c \in Callers : load[c] \notin {"none", "running"}}
Count(seq, x) == Cardinality({i \in DOMAIN seq : seq[i] = x})

\* C1: an event with an interactive trigger (none, "http" or "") for an
\* operation that requires readiness, arriving while the model is not ready,
\* is rejected with the not-ready error in the same step: the wait loop is
\* never entered, no poll is made and no hook (preprocess, validate, predict,
\* explain) is invoked.
C1_InteractiveRejectedAtOnce ==
    /\ [](trigger \in InteractiveTriggers =>
            /\ rpc \notin {"wait", "timeout"}
            /\ polls = 0
            /\ rpc = "rejected" => calls = <<>> /\ result = NotReadyYet)
    /\ [][(events' = events + 1 /\ ~ready /\ trigger' \in InteractiveTriggers) =>
            /\ rpc' = "rejected"
            /\ result' = [kind |-> "RuntimeError", msg |-> "is not ready yet",
                          reason |-> ""]
            /\ polls' = 0
            /\ calls' = <<>>]_vars

C1_Witness ==
    /\ rpc = "rejected"
    /\ trigger = ""
    /\ op = "explain"
    /\ result = NotReadyYet
    /\ \E c \in Callers : load[c] = "running"

\* C2: an event with a background trigger kind waits for at most 50 polls;
\* it times out only on a poll that still finds the model not ready, and the
\* error it then fails with carries whatever failure reason self.error holds.
C2_BoundedWait ==
    /\ [](/\ polls <= 50
          /\ rpc = "timeout" => polls = 50
          /\ (rpc = "rejected" /\ trigger \notin InteractiveTriggers) =>
                /\ polls = 50
                /\ result.kind = "RuntimeError"
                /\ result.msg = "is not ready"
                /\ calls = <<>>)
    /\ [][/\ (rpc = "wait" /\ rpc' = "timeout") => (~ready /\ polls = 49)
          /\ (rpc = "wait" /\ rpc' = "wait" /\ polls' # polls) => polls' = polls + 1
          /\ (rpc = "timeout" /\ rpc' = "rejected") => result'.reason = error]_vars

C2_Witness ==
    /\ rpc = "rejected"
    /\ trigger = "stream"
    /\ polls = 50
    /\ result.reason = "IOError"

\* C3: while exactly one load has been started on the instance, the
\* readiness state is NotLoaded/Loading (not ready, no error) until the load
\* resolves, and then exactly one of Ready (ready, no error) or Failed
\* (error recorded, not ready), in sync and in async mode.
C3_ExactlyOneOfReadyFailed ==
    Cardinality(LoadsStarted) = 1 =>
        \A c \in LoadsStarted :
            /\ load[c] = "running" => (~ready /\ error = "")
            /\ load[c] = "ok" => (ready /\ error = "")
            /\ load[c] \in Failures => (~ready /\ error = load[c])

C3_Witness ==
    \E c \in Callers :
        /\ LoadsStarted = {c}
        /\ pimode[c] = "async"
        /\ load[c] = "ValueError"
        /\ error = "ValueError"
        /\ ~ready

\* C4 (as claimed): once a load has failed and the model is not ready, no
\* step makes it ready, and at most one load ever resolves on the instance.
C4_FailedIsTerminal ==
    /\ [](Cardinality(LoadsResolved) <= 1)
    /\ [][(error # "" /\ ~ready) => ~ready']_vars

\* C5 (as claimed): at most one load() is in flight at any time.
C5_AtMostOneLoadInFlight == Cardinality(LoadsInFlight) <= 1

\* C6: a post_init call that finds the model ready starts no load, in either
\* mode, and no step of that call changes the ready flag or the recorded
\* error; an instance built with a model object never loads.
C6_ReadyPostInitIsNoOp ==
    /\ [](model => (ready /\ error = "" /\ LoadsStarted = {}))
    /\ [][\A c \in Callers :
            /\ (pipc[c] = "idle" /\ pipc'[c] # "idle" /\ ready) =>
                  (load' = load /\ ready' = ready /\ error' = error)
            /\ (pipc[c] \in {"tail", "endpoint", "logger"} /\ pipc'[c] # pipc[c]) =>
                  (load' = load /\ ready' = ready /\ error' = error)]_vars

C6_Witness ==
    /\ model
    /\ \E c \in Callers : pimode[c] = "async" /\ pipc[c] = "returned"
    /\ \E c \in Callers : pimode[c] = "sync" /\ pipc[c] = "returned"

\* C7: in sync mode a raising load() leaves post_init as a RuntimeError whose
\* cause is the exception load() raised, and in the step that raises it the
\* exception is recorded in self.error and the ready flag is not touched (it
\* is false when this is the only load).
C7_SyncLoadFailure ==
    /\ [](\A c \in Callers :
            (pimode[c] = "sync" /\ load[c] \in Failures) =>
                /\ pipc[c] = "raised"
                /\ piraise[c] = [type |-> "RuntimeError", cause |-> load[c]]
                /\ error \in Failures
                /\ LoadsStarted = {c} => (error = load[c] /\ ~ready))
    /\ [][\A c \in Callers :
            (pipc[c] = "loading" /\ pipc'[c] = "raised") =>
                /\ load'[c] \in Failures
                /\ error' = load'[c]
                /\ ready' = ready]_vars

C7_Witness ==
    \E c \in Callers :
        /\ pipc[c] = "raised"
        /\ pimode[c] = "sync"
        /\ piraise[c] = [type |-> "RuntimeError", cause |-> "IOError"]
        /\ error = "IOError"

\* C8 (as claimed): a waiter's next step after a load failure is recorded
\* (and the model is not ready) rejects it.
C8_WaitersRejectedOnFailure ==
    [][(rpc = "wait" /\ error # "" /\ ~ready /\ <<rpc, polls>>' # <<rpc, polls>>)
          => rpc' = "rejected"]_vars

\* C9: an async post_init call never runs or waits for load() itself: it can
\* always go on to the rest of post_init while the load is running, and no
\* load failure is raised to it. The thread's load updates the readiness
\* state: ready on success; on failure the error is recorded and the ready
\* flag is left alone (false when this is the only load).
C9_AsyncLoad ==
    \A c \in Callers :
        pimode[c] = "async" =>
            /\ pipc[c] # "loading"
            /\ pipc[c] = "tail" => ENABLED post_init_tail(c)
            /\ pipc[c] = "endpoint" =>
                  ENABLED (\E o \in RegistryOutcomes : post_init_endpoint(c, o))
            /\ pipc[c] = "logger" => ENABLED post_init_logger(c)
            /\ pipc[c] = "raised" => piraise[c].type # "RuntimeError"
            /\ load[c] = "ok" => ready
            /\ load[c] \in Failures => error \in Failures
            /\ (load[c] \in Failures /\ LoadsStarted = {c}) =>
                  (error = load[c] /\ ~ready)

C9_Witness ==
    \E c \in Callers :
        /\ pimode[c] = "async"
        /\ pipc[c] = "returned"
        /\ load[c] = "running"

TracksAndServes == context.server /\ (~context.is_mock \/ context.monitoring_mock)

\* C10: under a context with a server and endpoint tracking,
\* every finished post_init run has reconciled exactly once, never while its
\* load was unresolved, and the pusher is set up after the reconciliation.
C10_ReconcileOnceAfterLoad ==
    TracksAndServes =>
        \A c \in Callers :
            /\ pipc[c] \in {"returned", "raised"} =>
                  Count(pilog[c], "init_endpoint_record") = 1
            /\ Count(pilog[c], "init_endpoint_record") >= 1 => load[c] # "running"
            /\ Count(pilog[c], "ModelLogPusher") >= 1 =>
                  pilog[c] = <<"init_endpoint_record", "ModelLogPusher">>

\* C11 (as claimed): under a context with a server, a post_init run that
\* returns in mock mode without forced monitoring has made no reconciliation
\* and no pusher (the endpoint uid is unset, no pusher exists); otherwise it
\* has made the reconciliation and, with the stream enabled, the pusher.
C11_MockSkipsBoth ==
    context.server =>
        \A c \in Callers :
            pipc[c] = "returned" =>
                IF context.is_mock /\ ~context.monitoring_mock
                THEN /\ pilog[c] = <<>>
                     /\ model_endpoint_uid = "None"
                     /\ ~model_logger
                ELSE /\ Count(pilog[c], "init_endpoint_record") = 1
                     /\ context.stream_enabled => Count(pilog[c], "ModelLogPusher") = 1

\* C11 (amended): under a context with a server, a post_init run that returns
\* has made the reconciliation exactly when the context is not in mock mode or
\* monitoring is forced on (in mock mode without forced monitoring the
\* endpoint uid stays unset), and has made the pusher exactly when the output
\* stream is enabled, in mock mode too.
C11_MockSkipsReconcileOnly ==
    context.server =>
        \A c \in Callers :
            pipc[c] = "returned" =>
                /\ Count(pilog[c], "init_endpoint_record") =
                      (IF ~context.is_mock \/ context.monitoring_mock THEN 1 ELSE 0)
                /\ Count(pilog[c], "ModelLogPusher") =
                      (IF context.stream_enabled THEN 1 ELSE 0)
                /\ model_logger = context.stream_enabled
                /\ (context.is_mock /\ ~context.monitoring_mock) =>
                      model_endpoint_uid = "None"

C11_Witness ==
    /\ context.server
    /\ context.is_mock
    /\ ~context.monitoring_mock
    /\ context.stream_enabled
    /\ \E c \in Callers : pipc[c] = "returned" /\ pilog[c] = <<"ModelLogPusher">>
    /\ model_logger
    /\ model_endpoint_uid = "None"

\* the name segment of the current event's path ("" when it has none), the
\* "operation" entry of its body and whether do_event has taken an event
Segment ==
    LET names == SelectSeq(event.path, LAMBDA t : t # "/")
    IN  IF names = <<>> THEN "" ELSE names[1]
BodyOperation == event.body.operation
Taken == rpc # "idle"

\* C12 (as claimed): the operation of an event is the "operation" entry of
\* its mapping body when there is one, whatever the path; else the path
\* segment when it is not empty; else "infer" when the method is not GET.
C12_BodyOperationWins ==
    Taken =>
        /\ BodyOperation # "<absent>" => op = BodyOperation
        /\ (BodyOperation = "<absent>" /\ Segment # "") => op = Segment
        /\ (BodyOperation = "<absent>" /\ Segment = "" /\ event.method # "GET") =>
              op = "infer"

\* C12 (amended): the operation of an event is the path segment when it is
\* not empty, whatever the body; else the "operation" entry of its mapping
\* body when there is one; else "infer" when the method is not GET.
C12_PathWins ==
    Taken =>
        /\ Segment # "" => op = Segment
        /\ (Segment = "" /\ BodyOperation # "<absent>") => op = BodyOperation
        /\ (Segment = "" /\ BodyOperation = "<absent>" /\ event.method # "GET") =>
              op = "infer"

C12_Witness ==
    /\ Taken
    /\ Segment = "infer"
    /\ BodyOperation = "explain"
    /\ op = "infer"
    /\ rpc = "done"
    /\ calls = <<"preprocess", "validate", "predict", "postprocess">>

\* C13: an event with an empty path and method GET whose body has no
\* "operation" entry (no body, an empty mapping or any other mapping) has the
\* empty operation and gets the metadata; an empty body with path "/infer"
\* and POST is an infer; a body with operation "explain", an empty path and
\* POST is an explain.
C13_EmptyGetIsMetadata ==
    Taken =>
        /\ (Segment = "" /\ event.method = "GET" /\ BodyOperation = "<absent>") =>
              /\ op = ""
              /\ rpc = "done"
              /\ ebody.kind = "dict"
              /\ ebody.keys = {"name", "version", "inputs", "outputs"}
        /\ (event.path = <<"/", "infer">> /\ event.method = "POST"
              /\ event.body.type = "dict" /\ BodyOperation = "<absent>"
              /\ event.body.id = "<absent>" /\ event.body.inputs = "<absent>") =>
              op = "infer"
        /\ (Segment = "" /\ event.method = "POST" /\ BodyOperation = "explain") =>
              op = "explain"

\* the hooks of a predict request in the order of the claim, and whether
\* seq is the beginning of full
PredictSteps ==
    (IF op \in {"infer_dict", "predict_dict"} THEN <<"_inputs_to_list">> ELSE <<>>)
    \o <<"preprocess", "validate", "predict", "postprocess">>
IsPrefix(seq, full) == Len(seq) <= Len(full) /\ seq = SubSeq(full, 1, Len(seq))
ServedSteps ==
    IF op = "explain" THEN <<"preprocess", "validate", "explain", "postprocess">>
    ELSE PredictSteps

\* C14: for a predict, infer, predict_dict or infer_dict event the hooks run
\* are a beginning of: dict expansion (dict operations only), preprocess,
\* validate, predict, postprocess, so each runs at most once and in this
\* order, and none runs before the model is ready; event.body is assigned only
\* after all of them have run and, with a pusher, after the one push of the
\* result; and when do_event returns, all of them have run, the push is made
\* exactly when a pusher is configured, and the response has id, model_name,
\* outputs and timestamp, and model_version exactly when the version is set.
C14_PredictPipeline ==
    (Taken /\ op \in {"predict", "infer", "predict_dict", "infer_dict"}) =>
        /\ IsPrefix(calls, PredictSteps)
        /\ calls # <<>> => ready
        /\ ebody.kind # "original" =>
              /\ calls = PredictSteps
              /\ Len(pushes) = (IF model_logger THEN 1 ELSE 0)
        /\ rpc = "done" =>
              /\ calls = PredictSteps
              /\ Len(pushes) = (IF model_logger THEN 1 ELSE 0)
              /\ \A i \in DOMAIN pushes : pushes[i].kind = "result"
              /\ ebody.kind = "dict"
              /\ ebody.keys = {"id", "model_name", "outputs", "timestamp"}
                              \cup (IF version = "" THEN {} ELSE {"model_version"})
              /\ ebody.id = (IF event.body.id = "<absent>" THEN event.id
                             ELSE event.body.id)

C14_Witness ==
    /\ Taken
    /\ op = "predict_dict"
    /\ rpc = "done"
    /\ model_logger
    /\ version = "v1"
    /\ calls = <<"_inputs_to_list", "preprocess", "validate", "predict", "postprocess">>
    /\ Len(pushes) = 1
    /\ "model_version" \in ebody.keys

\* C15 (as claimed): an explain event that do_event answers has run
\* preprocess, validate and explain, and not postprocess.
C15_ExplainSkipsPostprocess ==
    (Taken /\ op = "explain" /\ rpc = "done") =>
        calls = <<"preprocess", "validate", "explain">>

\* C15 (amended): an explain event that do_event answers has run preprocess,
\* validate, explain and then postprocess, each once; the response has id,
\* model_name and outputs, and model_version exactly when the version is set.
C15_ExplainIsPostprocessed ==
    (Taken /\ op = "explain" /\ rpc = "done") =>
        /\ calls = <<"preprocess", "validate", "explain", "postprocess">>
        /\ ebody.kind = "dict"
        /\ ebody.keys = {"id", "model_name", "outputs"}
                        \cup (IF version = "" THEN {} ELSE {"model_version"})

C15_Witness ==
    /\ Taken
    /\ op = "explain"
    /\ rpc = "done"
    /\ ready
    /\ calls = <<"preprocess", "validate", "explain", "postprocess">>

\* C16: an event with operation ready and method GET, in every readiness
\* state, is answered at once: it is marked terminated, its status is 200
\* when the model is ready and 408 when it is not, it does not wait, no hook
\* runs and nothing is pushed.
C16_HealthCheck ==
    (Taken /\ op = "ready" /\ event.method = "GET") =>
        /\ rpc = "done"
        /\ terminated
        /\ ebody.kind = "Response"
        /\ ebody.status_code = (IF ready THEN 200 ELSE 408)
        /\ polls = 0
        /\ calls = <<>>
        /\ pushes = <<>>

C16_Witness ==
    /\ Taken
    /\ op = "ready"
    /\ event.method = "GET"
    /\ ~ready
    /\ load[1] = "running"
    /\ model_logger
    /\ ebody.kind = "Response"
    /\ ebody.status_code = 408
    /\ terminated

\* C17: while the model is not ready (not loaded, loading or failed) a GET
\* event with operation ready or with the empty operation is answered, never
\* rejected and never made to wait, whatever its trigger: the health check
\* with status 408, the metadata with the name and the version.
C17_NeverNotReady ==
    (Taken /\ ~ready /\ event.method = "GET" /\ op \in {"ready", ""}) =>
        /\ rpc = "done"
        /\ result.kind = "response"
        /\ op = "ready" => ebody.kind = "Response" /\ ebody.status_code = 408
        /\ op = "" =>
              /\ ebody.kind = "dict"
              /\ {"name", "version"} \subseteq ebody.keys
              /\ ebody.version = version

C17_Witness ==
    /\ Taken
    /\ error = "ValueError"
    /\ ~ready
    /\ trigger = "stream"
    /\ op = ""
    /\ event.method = "GET"
    /\ rpc = "done"
    /\ ebody.kind = "dict"
    /\ ebody.version = "v1"

\* C18: an event whose operation is not built in and for which the server
\* has an op_<operation> method is answered by exactly one call of that
\* method, whose result becomes the event body; the event is marked
\* terminated and nothing is pushed.
C18_CustomOperation ==
    (Taken /\ op \in {"custom"}) =>
        /\ rpc = "done"
        /\ calls = <<"op_custom">>
        /\ ebody.kind = "custom"
        /\ pushes = <<>>
        /\ terminated

\* C19: an event that matches no branch of the dispatch (operation ready
\* with a method other than GET, an unknown operation, a GET that resolved
\* to no operation) is refused with the illegal-operation error that names
\* its operation and its method; the event body stays as it was and nothing
\* is pushed.
C19_UnmatchedIsIllegal ==
    (/\ Taken
     /\ op \notin {"predict", "infer", "predict_dict", "infer_dict", "explain", "custom"}
     /\ ~(op \in {"ready", ""} /\ event.method = "GET")) =>
        /\ rpc = "raised"
        /\ result.kind = "ValueError"
        /\ result.msg = "illegal model operation"
        /\ result.op = op
        /\ result.method = event.method
        /\ ebody.kind = "original"
        /\ pushes = <<>>

\* C20: when predict or explain raises, one error record that carries the
\* request id is pushed if a pusher is configured and none otherwise, the
\* caller of do_event gets the error that predict or explain raised, and the
\* event body is not replaced.
C20_InferenceErrorIsRaised ==
    (/\ Taken
     /\ hooks.model = "raise"
     /\ calls # <<>>
     /\ calls[Len(calls)] \in {"predict", "explain"}) =>
        /\ rpc = "raised"
        /\ Len(pushes) = (IF model_logger THEN 1 ELSE 0)
        /\ \A i \in DOMAIN pushes :
              /\ pushes[i].kind = "error"
              /\ pushes[i].request_id = (IF event.body.id = "<absent>" THEN event.id
                                         ELSE event.body.id)
        /\ result.kind = "ModelError"
        /\ ebody.kind = "original"

\* C21 (as claimed): an output stream whose push raises changes nothing for
\* the caller of do_event: a pipeline that ran to its end still returns the
\* response, and a failed predict or explain still raises its own error
C21_SinkFailureContained ==
    (Taken /\ rpc \in {"done", "raised"} /\ pushes # <<>> /\ hooks.sink = "raise") =>
        IF pushes[1].kind = "result"
        THEN rpc = "done" /\ result.kind = "response" /\ ebody.kind = "dict"
        ELSE result.kind = "ModelError"

\* the numbers of the push calls made so far without error, how many of
\* them were made up to call n, and a set of numbers in ascending order
OkCalls == {n \in DOMAIN plog : plog[n] = "ok"}
OkRank(n) == Cardinality({i \in OkCalls : i <= n})
Ascending(S) ==
    [i \in 1..Cardinality(S) |->
       CHOOSE x \in S : Cardinality({y \in S : y < x}) = i - 1]
NotError(rec) == rec.kind # "error"
IsError(rec) == rec.kind = "error"

\* C22: with batch size 1 and sample rate N, the pushes the stream gets for
\* calls without error are one flat record for each such call whose rank
\* among them is a multiple of N, in order, and nothing for the others
C22_SampledFlat ==
    stream_batch = 1 =>
        LET hit == Ascending({n \in OkCalls : OkRank(n) % stream_sample = 0})
        IN  /\ Len(SelectSeq(sink, NotError)) = Len(hit)
            /\ \A i \in DOMAIN hit :
                  SelectSeq(sink, NotError)[i] = [kind |-> "flat", rows |-> <<hit[i]>>]

\* C22 witness: at sample rate 2 the second and the fourth call without
\* error were pushed, with an error call in between
C22_Witness ==
    /\ stream_batch = 1
    /\ stream_sample = 2
    /\ Cardinality(OkCalls) = 5
    /\ Len(plog) = 6
    /\ Len(SelectSeq(sink, NotError)) = 2

\* C23: each push call that carries an error has made exactly one call of
\* the stream, holding its error record, whatever the counters, the sample
\* rate and the batch were
C23_ErrorAlwaysPushed ==
    LET errs == Ascending({n \in DOMAIN plog : plog[n] = "error"})
    IN  /\ Len(SelectSeq(sink, IsError)) = Len(errs)
        /\ \A i \in DOMAIN errs :
              SelectSeq(sink, IsError)[i] = [kind |-> "error", rows |-> <<errs[i]>>]

\* C23 witness: an error was pushed while the sampling counter and the
\* batch counter were both in mid-cycle
C23_Witness ==
    /\ plog # <<>>
    /\ plog[Len(plog)] = "error"
    /\ sample_iter # 0
    /\ batch_iter # 0
    /\ sink # <<>>
    /\ sink[Len(sink)].kind = "error"

\* C24: with sample rate 1 and batch size B > 1, after k calls without
\* error the stream got k div B pushes, the j-th holding the rows of calls
\* (j-1)*B+1 .. j*B in order; the rows of an incomplete batch are not pushed
C24_FullBatchesOnly ==
    (stream_sample = 1 /\ stream_batch > 1 /\ OkCalls = DOMAIN plog) =>
        /\ Len(sink) = Len(plog) \div stream_batch
        /\ \A j \in DOMAIN sink :
              /\ sink[j].kind = "table"
              /\ sink[j].rows = [i \in 1..stream_batch |-> (j - 1) * stream_batch + i]

\* C24 witness: five calls at batch size 2: two batches pushed, one row kept
C24_Witness ==
    /\ stream_sample = 1
    /\ stream_batch = 2
    /\ OkCalls = 1..5
    /\ Len(sink) = 2
    /\ batch_iter = 1

\* the rows the stream got and the rows still in the buffer
RowsPushed == [j \in DOMAIN sink |-> Len(sink[j].rows)]
RECURSIVE Sum(_)
Sum(q) == IF q = <<>> THEN 0 ELSE Head(q) + Sum(Tail(q))
RowsKept == IF stream_batch > 1 /\ batch_iter # 0 THEN Len(batch) ELSE 0
Holders(n) ==
    Cardinality({j \in DOMAIN sink : \E i \in DOMAIN sink[j].rows : sink[j].rows[i] = n})

\* C25 (as claimed): once the threads that called push at the same time have
\* all returned, the pusher and the stream are as after these calls made one
\* after the other: both counters have counted every call, every sampled
\* call's row is in one batch or in the buffer, none twice, and each batch
\* pushed has exactly B rows
C25_ConcurrentPushIsSerial ==
    (\A t \in Threads : tpc[t] = "returned") =>
        /\ sample_iter = Len(plog) % stream_sample
        /\ stream_batch > 1 => batch_iter = (Len(plog) \div stream_sample) % stream_batch
        /\ Sum(RowsPushed) + RowsKept = Len(plog) \div stream_sample
        /\ \A n \in DOMAIN plog : Holders(n) <= 1
        /\ \A j \in DOMAIN sink : Len(sink[j].rows) = IF stream_batch > 1 THEN stream_batch ELSE 1

\* the create and the patch calls run r has made, and whether its function
\* lookup answered, so that it went on to lines 607-690
CallsOf(r, c) == SelectSeq(rclog, LAMBDA e : e.run = r /\ e.call = c)
Decided(r) == Len(rcans[r]) >= 2 /\ rcans[r][2] = "ok" /\ rcpc[r] # "write"
LookedUp(r, a) == rcans[r] # <<>> /\ rcans[r][1] = a

\* C26: a lookup answered by not-found leaves the run without a record and
\* lets it go on to the function lookup; a lookup answered by bad-request
\* ends the run at once: it returns None, does not raise and has made no
\* create and no patch call
C26_LookupErrors ==
    \A r \in Runs :
        /\ LookedUp(r, "MLRunNotFoundError") =>
              /\ rcpc[r] # "idle"
              /\ Len(rcans[r]) = 1 => (rcpc[r] = "function" /\ ~rcep[r].exists)
        /\ LookedUp(r, "MLRunBadRequestError") =>
              /\ rcpc[r] = "returned"
              /\ rcret[r] = "None"
              /\ Len(rcans[r]) = 1
              /\ CallsOf(r, "create") = <<>>
              /\ CallsOf(r, "patch") = <<>>

\* C26 witness: a run ended by bad-request although tracking is enabled and
\* the registry holds no record, after a run that went on from not-found to
\* its create
C26_Witness ==
    /\ track_models
    /\ LookedUp(1, "MLRunNotFoundError")
    /\ Len(CallsOf(1, "create")) = 1
    /\ rcpc[1] = "raised"
    /\ ~registry.exists
    /\ LookedUp(2, "MLRunBadRequestError")
    /\ rcpc[2] = "returned"

\* C27: a run makes a create call only after a lookup that found no record
\* and with tracking enabled, and a run whose lookups answered makes one
\* then; with no record and tracking disabled it returns None and makes no
\* call; with a record it makes no create; after its create, or with a
\* record, it returns the record's uid
C27_CreateOnlyWhenAbsentAndTracked ==
    \A r \in Runs :
        /\ CallsOf(r, "create") # <<>> =>
              LookedUp(r, "MLRunNotFoundError") /\ track_models
        /\ LookedUp(r, "found") => CallsOf(r, "create") = <<>>
        /\ Decided(r) =>
              /\ Len(CallsOf(r, "create")) =
                    (IF LookedUp(r, "MLRunNotFoundError") /\ track_models THEN 1 ELSE 0)
              /\ (LookedUp(r, "MLRunNotFoundError") /\ ~track_models) =>
                    /\ rcpc[r] = "returned"
                    /\ rcret[r] = "None"
                    /\ CallsOf(r, "patch") = <<>>
              /\ (rcpc[r] = "returned" /\ (LookedUp(r, "found") \/ track_models)) =>
                    rcret[r] = "uid"

\* C27 witness: with tracking enabled the first run created the record and
\* returned its uid, and the second, which found it, created nothing
C27_Witness ==
    /\ track_models
    /\ Len(CallsOf(1, "create")) = 1
    /\ rcret[1] = "uid"
    /\ LookedUp(2, "found")
    /\ rcret[2] = "uid"
    /\ CallsOf(2, "create") = <<>>

\* the fields in which the record run r holds differs from the values of the
\* server
Differing(r) ==
    {f \in Fields : rcep[r].fields[f] # Identity(model_spec, track_models)[f]}

\* C28: a run that holds a record and comes to lines 647-686 makes one patch
\* call whose attributes are exactly the fields that differ, or no call
\* when none differs; and the run made right after a run that returned the
\* uid makes no create and no patch call
C28_PatchCarriesTheDrift ==
    /\ [][\A r \in Runs :
             (rcpc[r] = "write" /\ rcpc'[r] # "write" /\ rcep[r].exists) =>
                 IF Differing(r) = {} THEN rclog' = rclog
                 ELSE rclog' = Append(rclog, [call |-> "patch", run |-> r,
                                             attributes |-> Differing(r)])]_vars
    /\ [](\A r \in Runs :
             (r + 1 \in Runs /\ rcret[r] = "uid") =>
                 /\ CallsOf(r + 1, "create") = <<>>
                 /\ CallsOf(r + 1, "patch") = <<>>)

\* C28 witness: the first run patched exactly two fields of the record,
\* the monitoring mode one of them, and the second run came to its end with
\* the record and made no call
C28_Witness ==
    /\ Len(rclog) = 1
    /\ rclog[1].call = "patch"
    /\ rclog[1].run = 1
    /\ rclog[1].attributes = {"labels", "monitoring_mode"}
    /\ registry.fields = Identity(model_spec, track_models)
    /\ LookedUp(2, "found")
    /\ Decided(2)
    /\ rcret[2] = "uid"

\* C29 (as claimed): the runs made at the same time for one endpoint, with
\* tracking enabled and no record at first, make at most one create call
\* between them
C29_AtMostOneCreate ==
    Len(SelectSeq(rclog, LAMBDA e : e.call = "create")) <= 1

\* C30 (as claimed): a run one of whose calls of the run db failed (the
\* endpoint lookup with another answer than not-found, the function lookup,
\* the create or the patch) returns None and does not raise
C30_RegistryFailuresContained ==
    \A r \in Runs :
        (\E i \in DOMAIN rcans[r] : rcans[r][i] \in {"raise", "MLRunBadRequestError"}) =>
            rcpc[r] = "returned" /\ rcret[r] = "None"

\* C38: the ready flag is monotonic: no step of the server (a request, a
\* post_init call, a load that fails after another made the model ready)
\* takes a ready server back to not ready
C38_ReadyIsMonotonic == [][ready => ready']_vars

\* a server made ready by a load, on which a second load has failed since,
\* and which has served an event
C38_Witness ==
    /\ ~model
    /\ ready
    /\ error \in Failures
    /\ \E c \in Callers : load[c] = "ok"
    /\ \E c \in Callers : load[c] \in Failures
    /\ rpc = "done"

\* C39: an event with a stream trigger that waits in the readiness loop while
\* an asynchronous load runs is served (dict expansion for the dict
\* operations, preprocess, validate, predict or explain, postprocess) from
\* the first poll that finds the model ready: that poll leaves the loop and
\* enters the pipeline, whose steps then run to the answer or to the step
\* that raises; the loop makes at most 50 polls, and the event always leaves
\* it: it is answered, or fails, in the end.
C39_WaitEnds ==
    /\ [](polls <= 50 /\ (rpc = "wait" => polls < 50))
    /\ [][(rpc = "wait" /\ ready /\ <<rpc, polls, calls>>' # <<rpc, polls, calls>>) =>
             /\ rpc' \in {"model", "raised"}
             /\ calls' # <<>>
             /\ IsPrefix(calls', ServedSteps)
             /\ rpc' = "model" => Has(calls', "preprocess")]_vars
    /\ [][(rpc \in {"model", "postprocess"} /\ rpc' # rpc) =>
             /\ rpc' \in {"postprocess", "done", "raised"}
             /\ rpc' = "postprocess" => rpc = "model" /\ calls' = ServedSteps
             /\ IsPrefix(calls', ServedSteps)
             /\ rpc' = "done" => rpc = "postprocess" /\ calls' = ServedSteps]_vars
    /\ (rpc = "wait") ~> (rpc \in {"done", "raised", "rejected"})

\* the event was served after the load it waited for had returned
C39_Witness ==
    /\ trigger = "stream"
    /\ rpc = "done"
    /\ op = "infer"
    /\ calls = <<"preprocess", "validate", "predict", "postprocess">>
    /\ load[1] = "ok"
    /\ events = 1

\* the entry of the request body that validate is handed: what
\* _inputs_to_list left for the dict operations, the body's own otherwise
ValidatedInputs ==
    IF event.body.type = "None" THEN "<absent>"
    ELSE IF op \in {"infer_dict", "predict_dict"} /\ event.body.inputs = "dict"
    THEN "list"
    ELSE event.body.inputs
Validated == Taken /\ rpc \in {"done", "raised"} /\ Has(calls, "validate")

\* C32 (as claimed): every predict or explain event whose body, when validate
\* is handed it, has no inputs entry or an inputs entry that is not a list,
\* fails with the validation error (an Exception raised by validate), with
\* neither predict nor explain called and no push made; and a body whose
\* inputs entry is a list passes validate, so the model is called.
C32_ValidationError ==
    Validated =>
        IF ValidatedInputs = "list"
        THEN calls[Len(calls)] \in {"predict", "explain", "postprocess"}
        ELSE /\ rpc = "raised"
             /\ result.kind = "Exception"
             /\ calls[Len(calls)] = "validate"
             /\ pushes = <<>>

\* C40: an event that fails before predict or explain is called (rejected as
\* not ready, or failed in dict expansion, preprocess or validate) makes no
\* push at all; an error record is pushed only when predict or explain was
\* the last step run and it raised.
C40_NoPushBeforeTheModel ==
    /\ (~Has(calls, "predict") /\ ~Has(calls, "explain")) => pushes = <<>>
    /\ \A i \in DOMAIN pushes :
          pushes[i].kind = "error" =>
              /\ rpc = "raised"
              /\ calls[Len(calls)] \in {"predict", "explain"}
              /\ hooks.model = "raise"

\* a preprocess hook that raised on a server with a pusher
C40_Witness ==
    /\ Taken
    /\ model_logger
    /\ rpc = "raised"
    /\ result.kind = "PreprocessError"
    /\ calls = <<"_inputs_to_list", "preprocess">>
    /\ hooks.sink = "ok"
    /\ pushes = <<>>

\* C33 (as claimed): the microsec value of the last record built equals the
\* whole time from start to the moment it was built, in microseconds
C33_ElapsedIsTotalMicroseconds == microsec = elapsed

AllOk == \A n \in DOMAIN plog : plog[n] = "ok"

\* C34: with sample rate N and batch size B > 1, after k calls none of which
\* carries an error, the sink has received k \div (N * B) calls; the j-th of
\* them holds the B sampled calls (j-1)*B+1 .. j*B in order, the i-th sampled
\* call being call i * N; and every row in the buffer is a sampled call.
C34_SampledBatches ==
    (stream_batch > 1 /\ AllOk) =>
        /\ Len(sink) = Len(plog) \div (stream_sample * stream_batch)
        /\ \A j \in DOMAIN sink :
              /\ sink[j].kind = "table"
              /\ sink[j].rows = [i \in 1..stream_batch |->
                                   ((j - 1) * stream_batch + i) * stream_sample]
        /\ \A i \in DOMAIN batch : batch[i] % stream_sample = 0

C34_Witness ==
    /\ stream_sample = 2
    /\ stream_batch = 2
    /\ AllOk
    /\ Len(plog) = 6
    /\ Len(sink) = 1
    /\ sink[1].rows = <<2, 4>>
    /\ batch = <<6>>

\* C35: the sampling counter is in 0..N-1 and the batch counter in 0..B-1;
\* while the batch counter is not 0 the buffer holds as many rows as it
\* says, and the buffer never holds more than B rows
C35_CountersInRange ==
    /\ sample_iter \in 0..(stream_sample - 1)
    /\ batch_iter \in 0..(stream_batch - 1)
    /\ batch_iter # 0 => Len(batch) = batch_iter
    /\ Len(batch) <= stream_batch

\* a second batch being filled after the first was pushed
C35_Witness ==
    /\ stream_batch = 3
    /\ batch_iter = 2
    /\ Len(batch) = 2
    /\ Len(SelectSeq(sink, LAMBDA rec : rec.kind = "table")) = 1

\* the i-th sampled call: the call without error that is number i * N among
\* the calls without error; and the error calls, or error records, in a
\* beginning of the call history, or of the sink
SampledCall(i) == CHOOSE n \in OkCalls : OkRank(n) = i * stream_sample
ErrorsBefore(n) == Cardinality({m \in 1..(n - 1) : plog[m] = "error"})
ErrorsAhead(p) == Cardinality({q \in 1..(p - 1) : sink[q].kind = "error"})
Emitted == SelectSeq(sink, NotError)

\* C36: a push call with an error leaves the sampling counter, the batch
\* counter and the buffer as they are; and the records the sink holds of the
\* calls without error are what these calls alone give: with sampled calls
\* counted among the calls without error only, the j-th record holds sampled
\* call j (batch size 1) or sampled calls (j-1)*B+1 .. j*B (batch size B > 1),
\* and it stands in the sink after exactly the error records of the error
\* calls made before the call that pushed it.
C36_ErrorPushLeavesCounters ==
    /\ [][(Len(plog') = Len(plog) + 1 /\ plog'[Len(plog')] = "error") =>
             UNCHANGED <<sample_iter, batch_iter, lists, batch_id>>]_vars
    /\ [](/\ Len(Emitted) =
               (Cardinality(OkCalls) \div stream_sample) \div stream_batch
          /\ \A j \in DOMAIN Emitted :
                Emitted[j].rows = [i \in 1..stream_batch |->
                                     SampledCall((j - 1) * stream_batch + i)]
          /\ \A p \in DOMAIN sink :
                sink[p].kind # "error" =>
                    ErrorsAhead(p) = ErrorsBefore(sink[p].rows[Len(sink[p].rows)]))

\* error calls between the calls of one batch
C36_Witness ==
    /\ stream_sample = 2
    /\ stream_batch = 2
    /\ plog = <<"ok", "error", "ok", "error", "ok", "ok">>
    /\ Len(sink) = 3
    /\ sink[3].kind = "table"
    /\ sink[3].rows = <<3, 6>>

\* the rows that the holder of the j-th call of the sink finds in the list
\* it was handed
Tables == {j \in DOMAIN sink : sink[j].kind = "table"}
Seen(j) == lists[sink[j].ref + 1]
Range(q) == {q[i] : i \in DOMAIN q}

\* C37: the list handed to the sink holds, at any later time, the rows it
\* held when it was handed over; the first emission after a push of the
\* batch binds the buffer to a new list that holds its row alone; and two
\* batches handed to the sink have no row in common.
C37_FlushedBatchesAreFrozen ==
    /\ [](/\ \A j \in Tables : Seen(j) = sink[j].rows
          /\ \A j, k \in Tables :
                j # k => /\ Range(sink[j].rows) \cap Range(sink[k].rows) = {}
                         /\ sink[j].ref # sink[k].ref)
    /\ [][(batch_iter = 0 /\ batch' # batch) =>
             /\ Len(batch') = 1
             /\ batch_id' # batch_id
             /\ \A j \in Tables : sink[j].ref # batch_id']_vars

\* two batches pushed and a third begun
C37_Witness ==
    /\ stream_batch = 2
    /\ Cardinality(Tables) = 2
    /\ batch_iter = 1
    /\ Len(batch) = 1
    /\ \A j \in Tables : sink[j].ref # batch_id

\* the request of a dict operation once _inputs_to_list has been applied:
\* whether its inputs entry is a mapping or a list of mappings, and the
\* declared keys that one of the mappings does not have
Converted == new_inputs # NotConverted
OfMappings ==
    \/ req_inputs.type = "dict"
    \/ /\ req_inputs.type = "list"
       /\ \A i \in DOMAIN req_inputs.items : req_inputs.items[i].type = "dict"
MissingKeys ==
    {k \in Range(spec_inputs.names) :
       \E i \in DOMAIN req_inputs.items : k \notin req_inputs.items[i].keys}

\* C31 (as claimed): _inputs_to_list fails with the invalid-argument error
\* when the model declares no input features, when the inputs entry is
\* neither a mapping nor a list of mappings (a request without inputs
\* included), and when a mapping lacks a declared key, the error then naming
\* the keys that are missing; otherwise inputs becomes a list (one mapping)
\* or a list of lists (a list of mappings) that holds, for each mapping, its
\* values for the declared features in the declared order.
C31_DictInputsExpanded ==
    Converted =>
        IF ~spec_inputs.known \/ spec_inputs.names = <<>> \/ ~OfMappings
        THEN new_inputs.kind = "MLRunInvalidArgumentError"
        ELSE IF MissingKeys # {}
        THEN /\ new_inputs.kind = "MLRunInvalidArgumentError"
             /\ Range(new_inputs.names) = MissingKeys
        ELSE /\ new_inputs.kind = "ok"
             /\ new_inputs.shape = (IF req_inputs.type = "dict" THEN "list" ELSE "lists")
             /\ Len(new_inputs.rows) = Len(req_inputs.items)
             /\ \A i \in DOMAIN new_inputs.rows :
                   /\ Len(new_inputs.rows[i]) = Len(spec_inputs.names)
                   /\ \A p \in DOMAIN spec_inputs.names :
                         /\ new_inputs.rows[i][p].key = spec_inputs.names[p]
                         /\ new_inputs.rows[i][p].item =
                               (IF req_inputs.type = "dict" THEN 0 ELSE i)

====
